---- MODULE Spec2Model ----
(***************************************************************************)
(* Model of the ifl_core behavioural analytics engine: the session         *)
(* registry (api.rs), the feature extractor and the structure analyzer     *)
(* (feature.rs), the rule engine (rules.rs) and the event and profile      *)
(* value types (event.rs, profile.rs).                                     *)
(*                                                                         *)
(* Conventions.                                                            *)
(*  - Option<u64> is an integer with NoTime for None.                      *)
(*  - f32 ratios are exact fractions <<num, den>> in lowest terms; every   *)
(*    count in the model is far below 2^24, where f32 division and the     *)
(*    comparisons against the rule thresholds agree with exact arithmetic. *)
(*  - confidence is an f32, kept as an integer number of 2^-27.           *)
(*  - usize/u64 additions never wrap: all operands are bounded far below   *)
(*    2^64.                                                                *)
(*  - A text is a sequence of one-character strings (Unicode scalars).     *)
(***************************************************************************)
EXTENDS Integers, Sequences, FiniteSets, TLC

\* ------------------------------------------------------------------------
\* Bounds of the model
\* ------------------------------------------------------------------------
MaxSessions == 2

MaxCalls == 3

LiveCalls == 2

MaxStream == 3

Threads == {"t1", "t2"}

NoThread == "none"

Ids == 1..MaxSessions

BogusId == MaxSessions + 1

NoTime == -1

\* ------------------------------------------------------------------------
\* event.rs: InputEvent
\* ------------------------------------------------------------------------
KeyInsert(ch, ts) == [type |-> "KeyInsert", ch |-> ch, ts |-> ts]

KeyDelete(kind, count, ts) == [type |-> "KeyDelete", kind |-> kind, count |-> count, ts |-> ts]

Paste(length, ts) == [type |-> "Paste", length |-> length, ts |-> ts]

Cut(length, ts) == [type |-> "Cut", length |-> length, ts |-> ts]

CursorMove(position, ts) == [type |-> "CursorMove", position |-> position, ts |-> ts]

SelectionChange(start, end, ts) == [type |-> "SelectionChange", start |-> start, end |-> end, ts |-> ts]

CompositionStart(ts) == [type |-> "CompositionStart", ts |-> ts]

CompositionEnd(ts) == [type |-> "CompositionEnd", ts |-> ts]

Submit(ts) == [type |-> "Submit", ts |-> ts]

Undo(ts) == [type |-> "Undo", ts |-> ts]

Redo(ts) == [type |-> "Redo", ts |-> ts]

GhostText(text, ts) == [type |-> "GhostText", text |-> text, ts |-> ts]

VariantTags == {"KeyInsert", "KeyDelete", "Paste", "Cut", "CursorMove", "SelectionChange",
                "CompositionStart", "CompositionEnd", "Submit", "Undo", "Redo", "GhostText"}

\* ------------------------------------------------------------------------
\* Small arithmetic helpers
\* ------------------------------------------------------------------------
saturating_sub(a, b) == IF a >= b THEN a - b ELSE 0

RECURSIVE Gcd(_, _)
Gcd(a, b) == IF b = 0 THEN a ELSE Gcd(b, a % b)

\* the f32 quotient n / d (d > 0) as a fraction in lowest terms
Ratio(n, d) == LET g == Gcd(n, d) IN <<n \div g, d \div g>>

Zero == <<0, 1>>

\* r > p/q, r < p/q for a fraction r and a threshold p/q
RatioGt(r, p, q) == r[1] * q > p * r[2]

RatioLt(r, p, q) == r[1] * q < p * r[2]

Min(a, b) == IF a <= b THEN a ELSE b

\* ------------------------------------------------------------------------
\* feature.rs: FeatureExtractor
\* ------------------------------------------------------------------------
FeatureExtractor_new ==
  [ start_time |-> NoTime,
    last_event_time |-> NoTime,
    first_action |-> "None",
    paste_events |-> 0,
    total_pasted_chars |-> 0,
    total_typed_chars |-> 0,
    typing_bursts |-> 0,
    long_pause_count |-> 0,
    backspace_count |-> 0,
    backspace_burst_count |-> 0,
    undo_count |-> 0,
    redo_count |-> 0,
    selection_edit_count |-> 0,
    in_backspace_burst |-> FALSE,
    paste_timestamps |-> <<>>,
    events |-> <<>>,
    ghost_texts |-> <<>> ]

LongPauseMs == 1500

\* the event log kept for export and replay (get_events reads it)
record_event(x, e) == [x EXCEPT !.events = Append(@, e)]

\* GhostText arm: the text is kept, no count is touched
record_ghost_text(x, e) ==
  IF e.type = "GhostText" THEN [x EXCEPT !.ghost_texts = Append(@, e.text)] ELSE x

\* mutant of process_event_timing: the first event opens no burst
process_event_timing_first_silent(x, e) ==
  LET ts == e.ts
      x1 == IF x.start_time = NoTime THEN [x EXCEPT !.start_time = ts] ELSE x
      x2 == IF x1.first_action = "None"
              THEN (IF e.type = "Paste" THEN [x1 EXCEPT !.first_action = "Paste"]
                    ELSE IF e.type = "KeyInsert" THEN [x1 EXCEPT !.first_action = "Typed"]
                    ELSE x1)
              ELSE x1
      x3 == IF x2.last_event_time # NoTime
              THEN (IF saturating_sub(ts, x2.last_event_time) > LongPauseMs
                      THEN [x2 EXCEPT !.long_pause_count = @ + 1, !.typing_bursts = @ + 1]
                      ELSE x2)
              ELSE x2
  IN [x3 EXCEPT !.last_event_time = ts]

\* mutant of process_event_timing: a long pause is counted but ends no burst
process_event_timing_pause_only(x, e) ==
  LET ts == e.ts
      x1 == IF x.start_time = NoTime THEN [x EXCEPT !.start_time = ts] ELSE x
      x2 == IF x1.first_action = "None"
              THEN (IF e.type = "Paste" THEN [x1 EXCEPT !.first_action = "Paste"]
                    ELSE IF e.type = "KeyInsert" THEN [x1 EXCEPT !.first_action = "Typed"]
                    ELSE x1)
              ELSE x1
      x3 == IF x2.last_event_time # NoTime
              THEN (IF saturating_sub(ts, x2.last_event_time) > LongPauseMs
                      THEN [x2 EXCEPT !.long_pause_count = @ + 1]
                      ELSE x2)
              ELSE [x2 EXCEPT !.typing_bursts = @ + 1]
  IN [x3 EXCEPT !.last_event_time = ts]

\* mutant of process_event_timing: every KeyInsert and Paste sets first_action
process_event_timing_first_action_last(x, e) ==
  LET ts == e.ts
      x1 == IF x.start_time = NoTime THEN [x EXCEPT !.start_time = ts] ELSE x
      x2 == IF TRUE
              THEN (IF e.type = "Paste" THEN [x1 EXCEPT !.first_action = "Paste"]
                    ELSE IF e.type = "KeyInsert" THEN [x1 EXCEPT !.first_action = "Typed"]
                    ELSE x1)
              ELSE x1
      x3 == IF x2.last_event_time # NoTime
              THEN (IF saturating_sub(ts, x2.last_event_time) > LongPauseMs
                      THEN [x2 EXCEPT !.long_pause_count = @ + 1, !.typing_bursts = @ + 1]
                      ELSE x2)
              ELSE [x2 EXCEPT !.typing_bursts = @ + 1]
  IN [x3 EXCEPT !.last_event_time = ts]

\* mutant of process_event_timing: start_time is set by every event
process_event_timing_restart(x, e) ==
  LET ts == e.ts
      x1 == IF TRUE THEN [x EXCEPT !.start_time = ts] ELSE x
      x2 == IF x1.first_action = "None"
              THEN (IF e.type = "Paste" THEN [x1 EXCEPT !.first_action = "Paste"]
                    ELSE IF e.type = "KeyInsert" THEN [x1 EXCEPT !.first_action = "Typed"]
                    ELSE x1)
              ELSE x1
      x3 == IF x2.last_event_time # NoTime
              THEN (IF saturating_sub(ts, x2.last_event_time) > LongPauseMs
                      THEN [x2 EXCEPT !.long_pause_count = @ + 1, !.typing_bursts = @ + 1]
                      ELSE x2)
              ELSE [x2 EXCEPT !.typing_bursts = @ + 1]
  IN [x3 EXCEPT !.last_event_time = ts]

\* mutant of process_event_timing: a gap of exactly 1500 ms counts as a long pause
process_event_timing_at_threshold(x, e) ==
  LET ts == e.ts
      x1 == IF x.start_time = NoTime THEN [x EXCEPT !.start_time = ts] ELSE x
      x2 == IF x1.first_action = "None"
              THEN (IF e.type = "Paste" THEN [x1 EXCEPT !.first_action = "Paste"]
                    ELSE IF e.type = "KeyInsert" THEN [x1 EXCEPT !.first_action = "Typed"]
                    ELSE x1)
              ELSE x1
      x3 == IF x2.last_event_time # NoTime
              THEN (IF saturating_sub(ts, x2.last_event_time) >= LongPauseMs
                      THEN [x2 EXCEPT !.long_pause_count = @ + 1, !.typing_bursts = @ + 1]
                      ELSE x2)
              ELSE [x2 EXCEPT !.typing_bursts = @ + 1]
  IN [x3 EXCEPT !.last_event_time = ts]

\* mutant of process_event_timing: the gap is measured from start_time
process_event_timing_gap_from_start(x, e) ==
  LET ts == e.ts
      x1 == IF x.start_time = NoTime THEN [x EXCEPT !.start_time = ts] ELSE x
      x2 == IF x1.first_action = "None"
              THEN (IF e.type = "Paste" THEN [x1 EXCEPT !.first_action = "Paste"]
                    ELSE IF e.type = "KeyInsert" THEN [x1 EXCEPT !.first_action = "Typed"]
                    ELSE x1)
              ELSE x1
      x3 == IF x2.last_event_time # NoTime
              THEN (IF saturating_sub(ts, x2.start_time) > LongPauseMs
                      THEN [x2 EXCEPT !.long_pause_count = @ + 1, !.typing_bursts = @ + 1]
                      ELSE x2)
              ELSE [x2 EXCEPT !.typing_bursts = @ + 1]
  IN [x3 EXCEPT !.last_event_time = ts]

\* feature.rs 55-94: timestamp, start time, first action, burst timing
process_event_timing(x, e) ==
  LET ts == e.ts
      x1 == IF x.start_time = NoTime THEN [x EXCEPT !.start_time = ts] ELSE x
      x2 == IF x1.first_action = "None"
              THEN (IF e.type = "Paste" THEN [x1 EXCEPT !.first_action = "Paste"]
                    ELSE IF e.type = "KeyInsert" THEN [x1 EXCEPT !.first_action = "Typed"]
                    ELSE x1)
              ELSE x1
      x3 == IF x2.last_event_time # NoTime
              THEN (IF saturating_sub(ts, x2.last_event_time) > LongPauseMs
                      THEN [x2 EXCEPT !.long_pause_count = @ + 1, !.typing_bursts = @ + 1]
                      ELSE x2)
              ELSE [x2 EXCEPT !.typing_bursts = @ + 1]
  IN [x3 EXCEPT !.last_event_time = ts]

\* mutant of process_event_dispatch: a redo takes back a counted undo
process_event_dispatch_redo_cancels(x, e) ==
  CASE e.type = "KeyInsert" ->
         [x EXCEPT !.total_typed_chars = @ + 1, !.in_backspace_burst = FALSE]
    [] e.type = "KeyDelete" ->
         IF e.kind = "Backspace"
           THEN (IF x.in_backspace_burst
                   THEN [x EXCEPT !.backspace_count = @ + e.count]
                   ELSE [x EXCEPT !.backspace_count = @ + e.count,
                                  !.backspace_burst_count = @ + 1,
                                  !.in_backspace_burst = TRUE])
           ELSE [x EXCEPT !.in_backspace_burst = FALSE]
    [] e.type = "Paste" ->
         [x EXCEPT !.paste_events = @ + 1,
                   !.total_pasted_chars = @ + e.length,
                   !.paste_timestamps = Append(@, e.ts),
                   !.in_backspace_burst = FALSE]
    [] e.type = "Undo" -> [x EXCEPT !.undo_count = @ + 1, !.in_backspace_burst = FALSE]
    [] e.type = "Redo" -> [x EXCEPT !.redo_count = @ + 1, !.in_backspace_burst = FALSE, !.undo_count = saturating_sub(@, 1)]
    [] e.type = "SelectionChange" -> [x EXCEPT !.in_backspace_burst = FALSE]
    [] e.type = "GhostText" -> record_ghost_text(x, e)
    [] OTHER -> [x EXCEPT !.in_backspace_burst = FALSE]

\* mutant of process_event_dispatch: a backspace takes back typed characters
process_event_dispatch_untypes(x, e) ==
  CASE e.type = "KeyInsert" ->
         [x EXCEPT !.total_typed_chars = @ + 1, !.in_backspace_burst = FALSE]
    [] e.type = "KeyDelete" ->
         IF e.kind = "Backspace"
           THEN (IF x.in_backspace_burst
                   THEN [x EXCEPT !.backspace_count = @ + e.count,
                                  !.total_typed_chars = saturating_sub(@, e.count)]
                   ELSE [x EXCEPT !.backspace_count = @ + e.count,
                                  !.backspace_burst_count = @ + 1,
                                  !.in_backspace_burst = TRUE,
                                  !.total_typed_chars = saturating_sub(@, e.count)])
           ELSE [x EXCEPT !.in_backspace_burst = FALSE]
    [] e.type = "Paste" ->
         [x EXCEPT !.paste_events = @ + 1,
                   !.total_pasted_chars = @ + e.length,
                   !.paste_timestamps = Append(@, e.ts),
                   !.in_backspace_burst = FALSE]
    [] e.type = "Undo" -> [x EXCEPT !.undo_count = @ + 1, !.in_backspace_burst = FALSE]
    [] e.type = "Redo" -> [x EXCEPT !.redo_count = @ + 1, !.in_backspace_burst = FALSE]
    [] e.type = "SelectionChange" -> [x EXCEPT !.in_backspace_burst = FALSE]
    [] e.type = "GhostText" -> record_ghost_text(x, e)
    [] OTHER -> [x EXCEPT !.in_backspace_burst = FALSE]

\* mutant of process_event_dispatch: every Backspace opens a burst
process_event_dispatch_every_backspace(x, e) ==
  CASE e.type = "KeyInsert" ->
         [x EXCEPT !.total_typed_chars = @ + 1, !.in_backspace_burst = FALSE]
    [] e.type = "KeyDelete" ->
         IF e.kind = "Backspace"
           THEN [x EXCEPT !.backspace_count = @ + e.count,
                          !.backspace_burst_count = @ + 1,
                          !.in_backspace_burst = TRUE]
           ELSE [x EXCEPT !.in_backspace_burst = FALSE]
    [] e.type = "Paste" ->
         [x EXCEPT !.paste_events = @ + 1,
                   !.total_pasted_chars = @ + e.length,
                   !.paste_timestamps = Append(@, e.ts),
                   !.in_backspace_burst = FALSE]
    [] e.type = "Undo" -> [x EXCEPT !.undo_count = @ + 1, !.in_backspace_burst = FALSE]
    [] e.type = "Redo" -> [x EXCEPT !.redo_count = @ + 1, !.in_backspace_burst = FALSE]
    [] e.type = "SelectionChange" -> [x EXCEPT !.in_backspace_burst = FALSE]
    [] e.type = "GhostText" -> record_ghost_text(x, e)
    [] OTHER -> [x EXCEPT !.in_backspace_burst = FALSE]

\* feature.rs 97-138: the per-variant arm
process_event_dispatch(x, e) ==
  CASE e.type = "KeyInsert" ->
         [x EXCEPT !.total_typed_chars = @ + 1, !.in_backspace_burst = FALSE]
    [] e.type = "KeyDelete" ->
         IF e.kind = "Backspace"
           THEN (IF x.in_backspace_burst
                   THEN [x EXCEPT !.backspace_count = @ + e.count]
                   ELSE [x EXCEPT !.backspace_count = @ + e.count,
                                  !.backspace_burst_count = @ + 1,
                                  !.in_backspace_burst = TRUE])
           ELSE [x EXCEPT !.in_backspace_burst = FALSE]
    [] e.type = "Paste" ->
         [x EXCEPT !.paste_events = @ + 1,
                   !.total_pasted_chars = @ + e.length,
                   !.paste_timestamps = Append(@, e.ts),
                   !.in_backspace_burst = FALSE]
    [] e.type = "Undo" -> [x EXCEPT !.undo_count = @ + 1, !.in_backspace_burst = FALSE]
    [] e.type = "Redo" -> [x EXCEPT !.redo_count = @ + 1, !.in_backspace_burst = FALSE]
    [] e.type = "SelectionChange" -> [x EXCEPT !.in_backspace_burst = FALSE]
    [] e.type = "GhostText" -> record_ghost_text(x, e)
    [] OTHER -> [x EXCEPT !.in_backspace_burst = FALSE]

process_event(x, e) == process_event_dispatch(process_event_timing(record_event(x, e), e), e)

get_events(x) == x.events

extract_ghost_text(x) == x.ghost_texts

\* mutant of extract_source_features: TypedOnly is decided by the pasted count alone
extract_source_features_typed_default(x) ==
  LET total_chars == x.total_typed_chars + x.total_pasted_chars
      paste_ratio == IF total_chars > 0 THEN Ratio(x.total_pasted_chars, total_chars) ELSE Zero
      source_type == IF x.total_typed_chars = 0 /\ x.total_pasted_chars > 0 THEN "PasteOnly"
                     ELSE IF x.total_pasted_chars = 0 THEN "TypedOnly"
                     ELSE "Mixed"
  IN [ source_type |-> source_type,
       paste_ratio |-> paste_ratio,
       paste_events |-> x.paste_events,
       first_action |-> IF x.first_action = "None" THEN "Other" ELSE x.first_action ]

\* mutant of extract_source_features: the ratio is taken against the typed characters
extract_source_features_per_typed(x) ==
  LET paste_ratio == IF x.total_typed_chars > 0
                       THEN Ratio(x.total_pasted_chars, x.total_typed_chars) ELSE Zero
      source_type == IF x.total_typed_chars = 0 /\ x.total_pasted_chars > 0 THEN "PasteOnly"
                     ELSE IF x.total_pasted_chars = 0 /\ x.total_typed_chars > 0 THEN "TypedOnly"
                     ELSE "Mixed"
  IN [ source_type |-> source_type,
       paste_ratio |-> paste_ratio,
       paste_events |-> x.paste_events,
       first_action |-> IF x.first_action = "None" THEN "Other" ELSE x.first_action ]

extract_source_features(x) ==
  LET total_chars == x.total_typed_chars + x.total_pasted_chars
      paste_ratio == IF total_chars > 0 THEN Ratio(x.total_pasted_chars, total_chars) ELSE Zero
      source_type == IF x.total_typed_chars = 0 /\ x.total_pasted_chars > 0 THEN "PasteOnly"
                     ELSE IF x.total_pasted_chars = 0 /\ x.total_typed_chars > 0 THEN "TypedOnly"
                     ELSE "Mixed"
  IN [ source_type |-> source_type,
       paste_ratio |-> paste_ratio,
       paste_events |-> x.paste_events,
       first_action |-> IF x.first_action = "None" THEN "Other" ELSE x.first_action ]

extract_timing_features(x) ==
  LET last_ts == IF x.last_event_time = NoTime THEN 0 ELSE x.last_event_time
      start == IF x.start_time = NoTime THEN last_ts ELSE x.start_time
      total_duration_ms == saturating_sub(last_ts, start)
      avg_chars_per_sec == IF total_duration_ms > 0
                             THEN Ratio(x.total_typed_chars * 1000, total_duration_ms)
                             ELSE Zero
  IN [ total_duration_ms |-> total_duration_ms,
       avg_chars_per_sec |-> avg_chars_per_sec,
       typing_bursts |-> x.typing_bursts,
       long_pause_count |-> x.long_pause_count,
       pre_submit_pause_ms |-> 0 ]

\* mutant of efficiency_score: the division is guarded by max(1, total_typed_chars)
efficiency_score_max1(x, final_char_count) ==
  LET d == IF x.total_typed_chars > 1 THEN x.total_typed_chars ELSE 1
  IN IF final_char_count >= d THEN <<1, 1>> ELSE Ratio(final_char_count, d)

\* efficiency_score = clamp(final_char_count / total_typed_chars, 0, 1), and 1
\* when nothing was typed (the guarded division of the feature invariants)
efficiency_score(x, final_char_count) ==
  IF x.total_typed_chars = 0 THEN <<1, 1>>
  ELSE IF final_char_count >= x.total_typed_chars THEN <<1, 1>>
  ELSE Ratio(final_char_count, x.total_typed_chars)

extract_editing_features(x, final_char_count) ==
  [ backspace_count |-> x.backspace_count,
    backspace_burst_count |-> x.backspace_burst_count,
    undo_count |-> x.undo_count,
    redo_count |-> x.redo_count,
    selection_edit_count |-> x.selection_edit_count,
    efficiency_score |-> efficiency_score(x, final_char_count) ]

\* ------------------------------------------------------------------------
\* feature.rs: StructureAnalyzer (texts are sequences of characters)
\* ------------------------------------------------------------------------
Str(t) == t

starts_with(s, p) == Len(s) >= Len(p) /\ SubSeq(s, 1, Len(p)) = p

ends_with(s, p) == Len(s) >= Len(p) /\ SubSeq(s, Len(s) - Len(p) + 1, Len(s)) = p

contains(s, p) == \E i \in 1..(Len(s) - Len(p) + 1) : SubSeq(s, i, i + Len(p) - 1) = p

Whitespace == {" ", "\t", "\n", "\r"}

RECURSIVE trim_start(_)
trim_start(s) == IF s # <<>> /\ Head(s) \in Whitespace THEN trim_start(Tail(s)) ELSE s

Digits == {"0", "1", "2", "3", "4", "5", "6", "7", "8", "9"}

UpperToLower ==
  [c \in {"P", "L", "E", "A", "S", "W", "R", "I", "T", "C", "H", "U", "M", "Z", "F", "N", "O", "D"} |->
     CASE c = "P" -> "p" [] c = "L" -> "l" [] c = "E" -> "e" [] c = "A" -> "a"
       [] c = "S" -> "s" [] c = "W" -> "w" [] c = "R" -> "r" [] c = "I" -> "i"
       [] c = "T" -> "t" [] c = "C" -> "c" [] c = "H" -> "h" [] c = "U" -> "u"
       [] c = "M" -> "m" [] c = "Z" -> "z" [] c = "F" -> "f" [] c = "N" -> "n"
       [] c = "O" -> "o" [] c = "D" -> "d"]

to_lowercase(s) == [i \in 1..Len(s) |-> IF s[i] \in DOMAIN UpperToLower THEN UpperToLower[s[i]] ELSE s[i]]

\* str::lines: split at "\n", a trailing "\r" of a line dropped, no final empty line
FirstNewline(s) == IF \E i \in 1..Len(s) : s[i] = "\n"
                     THEN CHOOSE i \in 1..Len(s) : s[i] = "\n" /\ \A j \in 1..(i - 1) : s[j] # "\n"
                     ELSE 0

StripCr(l) == IF l # <<>> /\ l[Len(l)] = "\r" THEN SubSeq(l, 1, Len(l) - 1) ELSE l

RECURSIVE lines(_)
lines(s) ==
  IF s = <<>> THEN <<>>
  ELSE LET i == FirstNewline(s)
       IN IF i = 0 THEN <<s>>
          ELSE <<StripCr(SubSeq(s, 1, i - 1))>> \o lines(SubSeq(s, i + 1, Len(s)))

is_bullet_line(l) ==
  LET trimmed == trim_start(l)
  IN \/ starts_with(trimmed, <<"-", " ">>)
     \/ starts_with(trimmed, <<"*", " ">>)
     \/ (trimmed # <<>> /\ Head(trimmed) \in Digits /\ contains(trimmed, <<".", " ">>))

\* Hiragana, Katakana and CJK ideographs that occur in the texts of the model
\* (a non-ASCII character, and the backtick, is written as its code point)
JapaneseChars == {"U+8981", "U+7D04", "U+5B9F", "U+88C5", "U+307E", "U+3059", "U+3067", "U+304F", "U+3060", "U+3055", "U+3044", "U+304A", "U+9858", "U+3042", "U+308B", "U+3084", "U+308C", "U+3057", "U+308D"}

\* the language fields of StructureFeatures (profile.rs 66-70), read by the rule engine
analyze_language(text) ==
  LET lower == to_lowercase(text)
      japanese_detected == \E i \in 1..Len(text) : text[i] \in JapaneseChars
  IN [ japanese_detected |-> japanese_detected,
       request_summary |-> contains(lower, <<"s", "u", "m", "m", "a", "r", "i", "z", "e">>)
                             \/ contains(text, <<"U+8981", "U+7D04">>),
       request_implementation |-> \/ contains(lower, <<"i", "m", "p", "l", "e", "m", "e", "n", "t">>)
                                  \/ contains(lower, <<"w", "r", "i", "t", "e", " ", "c", "o", "d", "e">>)
                                  \/ contains(lower, <<"f", "u", "n", "c", "t", "i", "o", "n">>)
                                  \/ contains(text, <<"U+5B9F", "U+88C5">>),
       is_polite |-> japanese_detected
                       /\ (\/ contains(text, <<"U+307E", "U+3059">>) \/ contains(text, <<"U+3067", "U+3059">>)
                           \/ contains(text, <<"U+304F", "U+3060", "U+3055", "U+3044">>) \/ contains(text, <<"U+304A", "U+9858", "U+3044">>)),
       is_direct |-> japanese_detected
                       /\ (\/ contains(text, <<"U+3060", "U+3002">>) \/ contains(text, <<"U+3067", "U+3042", "U+308B">>)
                           \/ ends_with(text, <<"U+3084", "U+308C">>) \/ ends_with(text, <<"U+3057", "U+308D">>)) ]

analyze(text) ==
  LET char_count == Len(text)
      ls == lines(text)
      line_count == Len(ls)
      lower == to_lowercase(text)
      lang == analyze_language(text)
  IN [ char_count |-> char_count,
       line_count |-> line_count,
       avg_line_length |-> IF line_count > 0 THEN Ratio(char_count, line_count) ELSE Zero,
       bullet_lines |-> Cardinality({i \in 1..line_count : is_bullet_line(ls[i])}),
       has_code_block |-> \/ contains(text, <<"U+0060", "U+0060", "U+0060">>)
                          \/ \E i \in 1..line_count :
                               starts_with(ls[i], <<" ", " ", " ", " ">>) \/ starts_with(ls[i], <<"\t">>),
       question_like |-> contains(text, <<"?">>),
       command_like |-> \/ starts_with(lower, <<"p", "l", "e", "a", "s", "e">>)
                        \/ starts_with(lower, <<"w", "r", "i", "t", "e">>)
                        \/ starts_with(lower, <<"c", "r", "e", "a", "t", "e">>),
       japanese_detected |-> lang.japanese_detected,
       request_summary |-> lang.request_summary,
       request_implementation |-> lang.request_implementation,
       is_polite |-> lang.is_polite,
       is_direct |-> lang.is_direct ]

\* ------------------------------------------------------------------------
\* rules.rs: RuleEngine::apply.  The two HashSets are sets here; the order in
\* which they are collected into the Vec is chosen where a profile is built.
\* ------------------------------------------------------------------------
Rule1(source, structure) == RatioGt(source.paste_ratio, 8, 10) /\ structure.line_count >= 3

Rule2(source, timing, editing) ==
  source.source_type = "TypedOnly" /\ timing.total_duration_ms > 30000 /\ editing.backspace_count > 20

Rule3(structure) == structure.line_count <= 2 /\ structure.char_count < 40

Rule4(source, editing) == source.source_type = "Mixed" /\ editing.selection_edit_count > 2

Rule5(structure) == structure.bullet_lines > 2

\* mutant of apply_modes: a rule that fires replaces the modes of the earlier rules
apply_modes_overwrite(source, timing, editing, structure) ==
  LET m1 == IF Rule1(source, structure) THEN {"Summarize", "Structure"} ELSE {}
      m2 == IF Rule2(source, timing, editing) THEN {"Refine", "ClarifyQuestion"} ELSE m1
      m3 == IF Rule3(structure) THEN {"Explore", "ClarifyQuestion"} ELSE m2
      m4 == IF Rule4(source, editing) THEN {"Complete"} ELSE m3
      m5 == IF Rule5(structure) THEN {"Structure"} ELSE m4
      m6 == IF structure.question_like THEN {"ClarifyQuestion"} ELSE m5
      m9a == IF structure.request_summary THEN {"Summarize"} ELSE m6
      m9b == IF structure.request_implementation THEN {"Complete", "Structure"} ELSE m9a
  IN IF m9b = {} THEN {"Explore"} ELSE m9b

\* mutant of apply_modes: the fallback is left out
apply_modes_no_fallback(source, timing, editing, structure) ==
  (IF Rule1(source, structure) THEN {"Summarize", "Structure"} ELSE {})
  \cup (IF Rule2(source, timing, editing) THEN {"Refine", "ClarifyQuestion"} ELSE {})
  \cup (IF Rule3(structure) THEN {"Explore", "ClarifyQuestion"} ELSE {})
  \cup (IF Rule4(source, editing) THEN {"Complete"} ELSE {})
  \cup (IF Rule5(structure) THEN {"Structure"} ELSE {})
  \cup (IF structure.question_like THEN {"ClarifyQuestion"} ELSE {})
  \cup (IF structure.request_summary THEN {"Summarize"} ELSE {})
  \cup (IF structure.request_implementation THEN {"Complete", "Structure"} ELSE {})

apply_modes(source, timing, editing, structure) ==
  LET modes ==
        (IF Rule1(source, structure) THEN {"Summarize", "Structure"} ELSE {})
        \cup (IF Rule2(source, timing, editing) THEN {"Refine", "ClarifyQuestion"} ELSE {})
        \cup (IF Rule3(structure) THEN {"Explore", "ClarifyQuestion"} ELSE {})
        \cup (IF Rule4(source, editing) THEN {"Complete"} ELSE {})
        \cup (IF Rule5(structure) THEN {"Structure"} ELSE {})
        \cup (IF structure.question_like THEN {"ClarifyQuestion"} ELSE {})
        \cup (IF structure.request_summary THEN {"Summarize"} ELSE {})
        \cup (IF structure.request_implementation THEN {"Complete", "Structure"} ELSE {})
  IN IF modes = {} THEN {"Explore"} ELSE modes

\* mutant of apply_scope: the first rule that sets the scope wins
apply_scope_first_wins(source, structure) ==
  IF Rule1(source, structure) \/ Rule3(structure) THEN "Broad"
  ELSE IF Rule5(structure) THEN "Narrow"
  ELSE IF structure.request_summary THEN "Broad"
  ELSE "Medium"

apply_scope(source, structure) ==
  LET s1 == IF Rule1(source, structure) THEN "Broad" ELSE "Medium"
      s3 == IF Rule3(structure) THEN "Broad" ELSE s1
      s5 == IF Rule5(structure) THEN "Narrow" ELSE s3
  IN IF structure.request_summary THEN "Broad" ELSE s5

\* mutant of apply_tone: the first rule that sets the tone wins
apply_tone_first_wins(structure) ==
  IF structure.command_like THEN "Direct"
  ELSE IF structure.japanese_detected /\ structure.is_polite THEN "Gentle"
  ELSE IF structure.japanese_detected /\ structure.is_direct THEN "Direct"
  ELSE IF structure.request_implementation THEN "Direct"
  ELSE "Neutral"

apply_tone(structure) ==
  LET t7 == IF structure.command_like THEN "Direct" ELSE "Neutral"
      t8 == IF structure.japanese_detected
              THEN (IF structure.is_polite THEN "Gentle"
                    ELSE IF structure.is_direct THEN "Direct" ELSE t7)
              ELSE t7
  IN IF structure.request_implementation THEN "Direct" ELSE t8

\* mutant of apply_depth: rule 8 sets the depth either way
apply_depth_reset(source, timing, editing, structure) ==
  LET d2 == IF Rule2(source, timing, editing) THEN "Deep" ELSE "Normal"
  IN IF structure.japanese_detected
       THEN (IF structure.char_count > 500 THEN "Deep" ELSE "Normal")
       ELSE d2

apply_depth(source, timing, editing, structure) ==
  LET d2 == IF Rule2(source, timing, editing) THEN "Deep" ELSE "Normal"
  IN IF structure.japanese_detected /\ structure.char_count > 500 THEN "Deep" ELSE d2

\* f32 values are integers counting units of 2^-27, which holds 0.1f32, 0.2f32,
\* 0.3f32, 0.5 and 1.0 exactly; an addition rounds to the nearest f32, ties to
\* even (the spacing of f32 is 2^-24 in [0.5,1), 2^-23 in [1,2), 2^-22 in [2,4))
F32_0_1 == 13421773

F32_0_2 == 26843546

F32_0_3 == 40265320

F32_0_5 == 67108864

F32_1_0 == 134217728

f32_ulp(v) == IF v < F32_1_0 THEN 8 ELSE IF v < 2 * F32_1_0 THEN 16 ELSE 32

f32_round(v) ==
  LET u == f32_ulp(v)
      q == v \div u
      r == v % u
  IN IF 2 * r > u \/ (2 * r = u /\ q % 2 = 1) THEN (q + 1) * u ELSE q * u

\* confidence += delta
f32_add(a, delta) == f32_round(a + delta)

\* if <rule> { confidence += delta; }
f32_add_if(fires, a, delta) == IF fires THEN f32_add(a, delta) ELSE a

\* mutant of apply_confidence: the sum is returned without the min(1.0)
apply_confidence_uncapped(source, timing, editing, structure) ==
  LET c0 == F32_0_5
      c1 == f32_add_if(Rule1(source, structure), c0, F32_0_2)
      c2 == f32_add_if(Rule2(source, timing, editing), c1, F32_0_2)
      c3 == f32_add_if(Rule3(structure), c2, F32_0_1)
      c4 == f32_add_if(Rule4(source, editing), c3, F32_0_2)
      c5 == f32_add_if(Rule5(structure), c4, F32_0_1)
      c6 == f32_add_if(structure.question_like, c5, F32_0_1)
      c7 == f32_add_if(structure.command_like, c6, F32_0_1)
      c8 == f32_add_if(structure.japanese_detected, c7, F32_0_1)
      c9a == f32_add_if(structure.request_summary, c8, F32_0_3)
      c9b == f32_add_if(structure.request_implementation, c9a, F32_0_3)
  IN c9b

\* rules.rs 20-100, 153: the confidence, accumulated rule by rule in f32
apply_confidence(source, timing, editing, structure) ==
  LET c0 == F32_0_5
      c1 == f32_add_if(Rule1(source, structure), c0, F32_0_2)
      c2 == f32_add_if(Rule2(source, timing, editing), c1, F32_0_2)
      c3 == f32_add_if(Rule3(structure), c2, F32_0_1)
      c4 == f32_add_if(Rule4(source, editing), c3, F32_0_2)
      c5 == f32_add_if(Rule5(structure), c4, F32_0_1)
      c6 == f32_add_if(structure.question_like, c5, F32_0_1)
      c7 == f32_add_if(structure.command_like, c6, F32_0_1)
      c8 == f32_add_if(structure.japanese_detected, c7, F32_0_1)
      c9a == f32_add_if(structure.request_summary, c8, F32_0_3)
      c9b == f32_add_if(structure.request_implementation, c9a, F32_0_3)
  IN Min(F32_1_0, c9b)

\* mutant of apply_user_states: Hesitant needs only one of its two conditions
apply_user_states_either(source, timing, editing) ==
  (IF RatioLt(timing.avg_chars_per_sec, 2, 1) \/ timing.long_pause_count > 2 THEN {"Hesitant"} ELSE {})
  \cup (IF RatioGt(timing.avg_chars_per_sec, 5, 1) /\ timing.long_pause_count = 0 THEN {"Flowing"} ELSE {})
  \cup (IF editing.backspace_count > 10 \/ editing.selection_edit_count > 2 THEN {"Editing"} ELSE {})
  \cup (IF RatioGt(source.paste_ratio, 5, 10) THEN {"Pasting"} ELSE {})
  \cup (IF timing.typing_bursts > 5 /\ RatioLt(timing.avg_chars_per_sec, 3, 1) THEN {"Scattered"} ELSE {})
  \cup (IF RatioGt(timing.avg_chars_per_sec, 4, 1) /\ editing.backspace_count < 5 THEN {"Focused"} ELSE {})

apply_user_states(source, timing, editing) ==
  (IF RatioLt(timing.avg_chars_per_sec, 2, 1) /\ timing.long_pause_count > 2 THEN {"Hesitant"} ELSE {})
  \cup (IF RatioGt(timing.avg_chars_per_sec, 5, 1) /\ timing.long_pause_count = 0 THEN {"Flowing"} ELSE {})
  \cup (IF editing.backspace_count > 10 \/ editing.selection_edit_count > 2 THEN {"Editing"} ELSE {})
  \cup (IF RatioGt(source.paste_ratio, 5, 10) THEN {"Pasting"} ELSE {})
  \cup (IF timing.typing_bursts > 5 /\ RatioLt(timing.avg_chars_per_sec, 3, 1) THEN {"Scattered"} ELSE {})
  \cup (IF RatioGt(timing.avg_chars_per_sec, 4, 1) /\ editing.backspace_count < 5 THEN {"Focused"} ELSE {})

apply(source, timing, editing, structure) ==
  [ answer_mode |-> apply_modes(source, timing, editing, structure),
    scope_hint |-> apply_scope(source, structure),
    tone_hint |-> apply_tone(structure),
    depth_hint |-> apply_depth(source, timing, editing, structure),
    user_state |-> apply_user_states(source, timing, editing),
    confidence |-> apply_confidence(source, timing, editing, structure) ]

\* ------------------------------------------------------------------------
\* serde: the JSON forms of events and profiles
\* ------------------------------------------------------------------------
\* InputEvent is #[serde(tag = "type", content = "payload")]
event_payload(e) ==
  CASE e.type = "KeyInsert" -> [ch |-> e.ch, ts |-> e.ts]
    [] e.type = "KeyDelete" -> [kind |-> e.kind, count |-> e.count, ts |-> e.ts]
    [] e.type = "Paste" -> [length |-> e.length, ts |-> e.ts]
    [] e.type = "Cut" -> [length |-> e.length, ts |-> e.ts]
    [] e.type = "CursorMove" -> [position |-> e.position, ts |-> e.ts]
    [] e.type = "SelectionChange" -> [start |-> e.start, end |-> e.end, ts |-> e.ts]
    [] e.type = "GhostText" -> [text |-> e.text, ts |-> e.ts]
    [] OTHER -> [ts |-> e.ts]

event_to_json(e) == [type |-> e.type, payload |-> event_payload(e)]

event_from_json(j) ==
  LET p == j.payload
  IN CASE j.type = "KeyInsert" -> KeyInsert(p.ch, p.ts)
       [] j.type = "KeyDelete" -> KeyDelete(p.kind, p.count, p.ts)
       [] j.type = "Paste" -> Paste(p.length, p.ts)
       [] j.type = "Cut" -> Cut(p.length, p.ts)
       [] j.type = "CursorMove" -> CursorMove(p.position, p.ts)
       [] j.type = "SelectionChange" -> SelectionChange(p.start, p.end, p.ts)
       [] j.type = "CompositionStart" -> CompositionStart(p.ts)
       [] j.type = "CompositionEnd" -> CompositionEnd(p.ts)
       [] j.type = "Submit" -> Submit(p.ts)
       [] j.type = "Undo" -> Undo(p.ts)
       [] j.type = "Redo" -> Redo(p.ts)
       [] j.type = "GhostText" -> GhostText(p.text, p.ts)

\* mutant of events_to_json: the last event is left out
events_to_json_truncated(events) ==
  [wf |-> TRUE, items |-> [i \in 1..(Len(events) - 1) |-> event_to_json(events[i])]]

\* a JSON text: well-formed or not, and the array items of a well-formed one
events_to_json(events) == [wf |-> TRUE, items |-> [i \in 1..Len(events) |-> event_to_json(events[i])]]

\* serde_json::from_str::<Vec<InputEvent>>: Err on a text that is no JSON and on
\* an item whose tag names no variant
events_parse_ok(json) == json.wf /\ \A i \in 1..Len(json.items) : json.items[i].type \in VariantTags

\* mutant of events_from_json: the list comes out in reverse order
events_from_json_reversed(json) ==
  [i \in 1..Len(json.items) |-> event_from_json(json.items[Len(json.items) + 1 - i])]

events_from_json(json) == [i \in 1..Len(json.items) |-> event_from_json(json.items[i])]

\* #[serde(rename_all = "snake_case")] on the enums of profile.rs
SnakeCase ==
  [v \in {"TypedOnly", "PasteOnly", "Mixed", "Paste", "Typed", "Other",
          "Summarize", "Structure", "Refine", "Explore", "Complete", "ClarifyQuestion",
          "Narrow", "Medium", "Broad", "Direct", "Gentle", "Neutral", "Shallow", "Normal", "Deep",
          "Hesitant", "Flowing", "Editing", "Scattered", "Pasting", "Focused"} |->
     CASE v = "TypedOnly" -> "typed_only" [] v = "PasteOnly" -> "paste_only" [] v = "Mixed" -> "mixed"
       [] v = "Paste" -> "paste" [] v = "Typed" -> "typed" [] v = "Other" -> "other"
       [] v = "Summarize" -> "summarize" [] v = "Structure" -> "structure" [] v = "Refine" -> "refine"
       [] v = "Explore" -> "explore" [] v = "Complete" -> "complete"
       [] v = "ClarifyQuestion" -> "clarify_question"
       [] v = "Narrow" -> "narrow" [] v = "Medium" -> "medium" [] v = "Broad" -> "broad"
       [] v = "Direct" -> "direct" [] v = "Gentle" -> "gentle" [] v = "Neutral" -> "neutral"
       [] v = "Shallow" -> "shallow" [] v = "Normal" -> "normal" [] v = "Deep" -> "deep"
       [] v = "Hesitant" -> "hesitant" [] v = "Flowing" -> "flowing" [] v = "Editing" -> "editing"
       [] v = "Scattered" -> "scattered" [] v = "Pasting" -> "pasting" [] v = "Focused" -> "focused"]

FromSnakeCase(w) == CHOOSE v \in DOMAIN SnakeCase : SnakeCase[v] = w

profile_to_json(p) ==
  [ message_id |-> p.message_id,
    source |-> [ type |-> SnakeCase[p.source.source_type],
                 paste_ratio |-> p.source.paste_ratio,
                 paste_events |-> p.source.paste_events,
                 first_action |-> SnakeCase[p.source.first_action] ],
    timing |-> p.timing,
    editing |-> p.editing,
    structure |-> p.structure,
    tags |-> [ answer_mode |-> [i \in 1..Len(p.tags.answer_mode) |-> SnakeCase[p.tags.answer_mode[i]]],
               scope_hint |-> SnakeCase[p.tags.scope_hint],
               tone_hint |-> SnakeCase[p.tags.tone_hint],
               depth_hint |-> SnakeCase[p.tags.depth_hint],
               user_state |-> [i \in 1..Len(p.tags.user_state) |-> SnakeCase[p.tags.user_state[i]]],
               confidence |-> p.tags.confidence ],
    ghost_text |-> p.ghost_text ]

\* mutant of profile_from_json: the ghost text is not read back
profile_from_json_no_ghost(j) ==
  [ message_id |-> j.message_id,
    source |-> [ source_type |-> FromSnakeCase(j.source.type),
                 paste_ratio |-> j.source.paste_ratio,
                 paste_events |-> j.source.paste_events,
                 first_action |-> FromSnakeCase(j.source.first_action) ],
    timing |-> j.timing,
    editing |-> j.editing,
    structure |-> j.structure,
    tags |-> [ answer_mode |-> [i \in 1..Len(j.tags.answer_mode) |-> FromSnakeCase(j.tags.answer_mode[i])],
               scope_hint |-> FromSnakeCase(j.tags.scope_hint),
               tone_hint |-> FromSnakeCase(j.tags.tone_hint),
               depth_hint |-> FromSnakeCase(j.tags.depth_hint),
               user_state |-> [i \in 1..Len(j.tags.user_state) |-> FromSnakeCase(j.tags.user_state[i])],
               confidence |-> j.tags.confidence ],
    ghost_text |-> <<>> ]

profile_from_json(j) ==
  [ message_id |-> j.message_id,
    source |-> [ source_type |-> FromSnakeCase(j.source.type),
                 paste_ratio |-> j.source.paste_ratio,
                 paste_events |-> j.source.paste_events,
                 first_action |-> FromSnakeCase(j.source.first_action) ],
    timing |-> j.timing,
    editing |-> j.editing,
    structure |-> j.structure,
    tags |-> [ answer_mode |-> [i \in 1..Len(j.tags.answer_mode) |-> FromSnakeCase(j.tags.answer_mode[i])],
               scope_hint |-> FromSnakeCase(j.tags.scope_hint),
               tone_hint |-> FromSnakeCase(j.tags.tone_hint),
               depth_hint |-> FromSnakeCase(j.tags.depth_hint),
               user_state |-> [i \in 1..Len(j.tags.user_state) |-> FromSnakeCase(j.tags.user_state[i])],
               confidence |-> j.tags.confidence ],
    ghost_text |-> j.ghost_text ]

\* ------------------------------------------------------------------------
\* api.rs: building a profile.  HashSet::into_iter().collect() yields the
\* elements in an order the hasher decides: every order is possible.
\* ------------------------------------------------------------------------
Range(q) == {q[i] : i \in 1..Len(q)}

collect(S) == {q \in [1..Cardinality(S) -> S] : Range(q) = S}

\* mutant of finalize_profiles: the profile is built without the ghost texts
finalize_profiles_no_ghost(x, message_id, final_text) ==
  LET source == extract_source_features(x)
      timing == extract_timing_features(x)
      structure == analyze(final_text)
      editing == extract_editing_features(x, structure.char_count)
      tags == apply(source, timing, editing, structure)
  IN { [ message_id |-> message_id,
         source |-> source,
         timing |-> timing,
         editing |-> editing,
         structure |-> structure,
         tags |-> [tags EXCEPT !.answer_mode = am, !.user_state = us],
         ghost_text |-> <<>> ] :
       am \in collect(tags.answer_mode), us \in collect(tags.user_state) }

\* api.rs 51-69: the profiles finalize_message can build from extractor x
finalize_profiles(x, message_id, final_text) ==
  LET source == extract_source_features(x)
      timing == extract_timing_features(x)
      structure == analyze(final_text)
      editing == extract_editing_features(x, structure.char_count)
      tags == apply(source, timing, editing, structure)
      ghost_text == extract_ghost_text(x)
  IN { [ message_id |-> message_id,
         source |-> source,
         timing |-> timing,
         editing |-> editing,
         structure |-> structure,
         tags |-> [tags EXCEPT !.answer_mode = am, !.user_state = us],
         ghost_text |-> ghost_text ] :
       am \in collect(tags.answer_mode), us \in collect(tags.user_state) }

\* mutant of preview_profiles: the preview is computed from a fresh extractor
preview_profiles_fresh(x, message_id, current_text) ==
  finalize_profiles(FeatureExtractor_new, message_id, current_text)

\* api.rs 84-102: the profiles preview_message can build from extractor x
preview_profiles(x, message_id, current_text) ==
  LET source == extract_source_features(x)
      timing == extract_timing_features(x)
      structure == analyze(current_text)
      editing == extract_editing_features(x, structure.char_count)
      tags == apply(source, timing, editing, structure)
      ghost_text == extract_ghost_text(x)
  IN { [ message_id |-> message_id,
         source |-> source,
         timing |-> timing,
         editing |-> editing,
         structure |-> structure,
         tags |-> [tags EXCEPT !.answer_mode = am, !.user_state = us],
         ghost_text |-> ghost_text ] :
       am \in collect(tags.answer_mode), us \in collect(tags.user_state) }

\* ------------------------------------------------------------------------
\* api.rs: IflCore, the session registry shared by the caller threads
\* ------------------------------------------------------------------------
VARIABLES
  sessions,   \* HashMap<String, FeatureExtractor>: a function on the ids present
  mutex,      \* the Mutex around the map: the thread holding it, or NoThread
  pc,         \* where each thread is: "idle", "lock" (in lock()), "cs", "cs_apply"
  call,       \* the API call each thread is executing, with its locals
  ret,        \* what each thread's last call returned
  issued,     \* the ids Uuid::new_v4 has produced
  known,      \* the ids returned to callers
  applied,    \* history: per id, the events whose push_event returned Ok, in serving order
  finLog,     \* history: per id, the outcomes of the finalize_message executions, in order
  budget      \* API calls the callers may still make

vars == <<sessions, mutex, pc, call, ret, issued, known, applied, finLog, budget>>

\* the inputs of the callers
PushEvents == {KeyInsert("a", 1000), GhostText("hm", 3000)}

Texts == {<<"H", "i", "?">>, <<"w", "r", "i", "t", "e">>}

Malformed == [wf |-> FALSE, items |-> <<>>]

UnknownTagJson == [wf |-> TRUE, items |-> <<[type |-> "KeyPress", payload |-> [ts |-> 1000]]>>]

HandWrittenJson == events_to_json(<<Paste(4, 1000), KeyInsert("b", 3000)>>)

NoOrigin == [has |-> FALSE, x |-> FeatureExtractor_new]

NoCall ==
  [ op |-> "none", fn |-> "none", id |-> BogusId, event |-> Submit(0), text |-> <<>>,
    queue |-> <<>>, events |-> <<>>, origin |-> NoOrigin, seen |-> 0, alone |-> TRUE ]

NoProfile == [message_id |-> BogusId]

NoRet ==
  [ status |-> "none", op |-> "none", id |-> BogusId, event |-> Submit(0), text |-> <<>>,
    events_json |-> Malformed, profile |-> NoProfile, origin |-> NoOrigin,
    seen |-> 0, at |-> 0, alone |-> TRUE ]

\* mutant of insert: the new entry replaces the map
insert_alone(s, id, x) == [i \in {id} |-> x]

\* HashMap::insert
insert(s, id, x) == [i \in DOMAIN s \cup {id} |-> IF i = id THEN x ELSE s[i]]

\* mutant of remove: every session is dropped (HashMap::clear)
remove_clear(s, id) == << >>

\* mutant of remove: the session stays in the map
remove_keep(s, id) == s

remove(s, id) == [i \in DOMAIN s \ {id} |-> s[i]]

\* mutant of get_mut: a missing id is inserted (entry().or_insert_with())
get_mut_or_insert(s, id) ==
  IF id \in DOMAIN s THEN s ELSE [i \in DOMAIN s \cup {id} |-> IF i = id THEN FeatureExtractor_new ELSE s[i]]

\* HashMap::get_mut in push_event: the map the lookup is made in
get_mut(s, id) == s

\* mutant of new_v4: the id generator may repeat an id
new_v4_repeating(used) == Ids

\* Uuid::new_v4: an id no earlier call produced (the ids are interchangeable, the
\* model takes the least unused one)
new_v4(used) == {id \in Ids \ used : \A j \in Ids \ used : id <= j}

\* mutant of Mutex_lock: the map is entered without waiting for the mutex
Mutex_lock_free(m) == TRUE

\* Mutex::lock succeeds when no thread holds the mutex
Mutex_lock(m) == m = NoThread

\* mutant of MutexGuard_drop: the guard outlives the function
MutexGuard_leak(m, t) == m

\* the MutexGuard is dropped when the locking function returns
MutexGuard_drop(m, t) == NoThread

AppliedLen(id) == IF id \in Ids THEN Len(applied[id]) ELSE 0

Init ==
  /\ sessions = << >>
  /\ mutex = NoThread
  /\ pc = [t \in Threads |-> "idle"]
  /\ call = [t \in Threads |-> NoCall]
  /\ ret = [t \in Threads |-> NoRet]
  /\ issued = {}
  /\ known = {}
  /\ applied = [i \in Ids |-> <<>>]
  /\ finLog = [i \in Ids |-> <<>>]
  /\ budget = MaxCalls

InitLive ==
  /\ sessions = << >>
  /\ mutex = NoThread
  /\ pc = [t \in Threads |-> "idle"]
  /\ call = [t \in Threads |-> NoCall]
  /\ ret = [t \in Threads |-> NoRet]
  /\ issued = {}
  /\ known = {}
  /\ applied = [i \in Ids |-> <<>>]
  /\ finLog = [i \in Ids |-> <<>>]
  /\ budget = LiveCalls

\* a caller passes an id it was given, or a string that names no session
CallerIds == known \cup {BogusId}

\* thread t enters an API function: the call is recorded, the other calls in
\* flight are no longer alone
Enter(t, c) ==
  /\ pc[t] = "idle"
  /\ budget > 0
  /\ budget' = budget - 1
  /\ pc' = [pc EXCEPT ![t] = "lock"]
  /\ call' = [u \in Threads |->
                IF u = t THEN [c EXCEPT !.alone = \A v \in Threads \ {t} : pc[v] = "idle",
                                        !.seen = AppliedLen(c.id)]
                ELSE IF pc[u] # "idle" THEN [call[u] EXCEPT !.alone = FALSE]
                ELSE call[u]]
  /\ ret' = [ret EXCEPT ![t] = NoRet]
  /\ UNCHANGED <<sessions, mutex, issued, known, applied, finLog>>

\* the model has MaxSessions ids: a call that creates a session is made only
\* when an id is left for it
IdLeft ==
  Cardinality(issued) + Cardinality({u \in Threads : pc[u] # "idle" /\ call[u].fn = "start_message"})
    < MaxSessions

CallStartMessage(t) ==
  /\ IdLeft
  /\ Enter(t, [NoCall EXCEPT !.op = "start_message", !.fn = "start_message"])

CallPushEvent(t) ==
  \E id \in CallerIds, e \in PushEvents :
    Enter(t, [NoCall EXCEPT !.op = "push_event", !.fn = "push_event", !.id = id, !.event = e])

CallFinalizeMessage(t) ==
  \E id \in CallerIds, text \in Texts :
    Enter(t, [NoCall EXCEPT !.op = "finalize_message", !.fn = "finalize_message",
                            !.id = id, !.text = text])

CallPreviewMessage(t) ==
  \E id \in CallerIds, text \in Texts :
    Enter(t, [NoCall EXCEPT !.op = "preview_message", !.fn = "preview_message",
                            !.id = id, !.text = text])

CallExportEvents(t) ==
  \E id \in CallerIds :
    Enter(t, [NoCall EXCEPT !.op = "export_events", !.fn = "export_events", !.id = id])

CallExportSnapshot(t) ==
  \E id \in CallerIds, text \in Texts :
    Enter(t, [NoCall EXCEPT !.op = "export_snapshot", !.fn = "export_events",
                            !.id = id, !.text = text])

\* the JSON texts a caller can hand to import_events: an export it or another
\* thread received, a hand-written list, and texts serde rejects
ImportInputs ==
  { [json |-> ret[u].events_json, origin |-> ret[u].origin] :
      u \in {v \in Threads : ret[v].status = "Ok" /\ ret[v].op = "export_events"} }
  \cup { [json |-> HandWrittenJson, origin |-> NoOrigin],
         [json |-> Malformed, origin |-> NoOrigin],
         [json |-> UnknownTagJson, origin |-> NoOrigin] }

\* api.rs 126: the text is parsed before anything else; on Err nothing was done
CallImportEventsBad(t) ==
  \E in \in ImportInputs :
    /\ ~events_parse_ok(in.json)
    /\ pc[t] = "idle"
    /\ budget > 0
    /\ budget' = budget - 1
    /\ ret' = [ret EXCEPT ![t] = [NoRet EXCEPT !.status = "BadInput", !.op = "import_events",
                                               !.events_json = in.json]]
    /\ call' = [u \in Threads |->
                  IF u # t /\ pc[u] # "idle" THEN [call[u] EXCEPT !.alone = FALSE] ELSE call[u]]
    /\ UNCHANGED <<sessions, mutex, pc, issued, known, applied, finLog>>

CallImportEvents(t) ==
  \E in \in ImportInputs :
    /\ events_parse_ok(in.json)
    /\ IdLeft
    /\ Enter(t, [NoCall EXCEPT !.op = "import_events", !.fn = "start_message",
                               !.events = events_from_json(in.json),
                               !.queue = events_from_json(in.json), !.origin = in.origin])

\* lock(): the thread waits until the mutex is free and takes it
Acquire(t) ==
  /\ pc[t] = "lock"
  /\ Mutex_lock(mutex)
  /\ mutex' = t
  /\ pc' = [pc EXCEPT ![t] = "cs"]
  /\ UNCHANGED <<sessions, call, ret, issued, known, applied, finLog, budget>>

\* the result record of the call c of thread t
Result(c, status) ==
  [NoRet EXCEPT !.status = status, !.op = c.op, !.id = c.id, !.event = c.event, !.text = c.text,
                !.origin = c.origin, !.seen = c.seen, !.at = AppliedLen(c.id), !.alone = c.alone]

Return(t, r) ==
  /\ ret' = [ret EXCEPT ![t] = r]
  /\ pc' = [pc EXCEPT ![t] = "idle"]
  /\ call' = [call EXCEPT ![t] = NoCall]

\* api.rs 21-29 (and 128-133 when called by import_events)
StartMessage(t) ==
  /\ pc[t] = "cs"
  /\ call[t].fn = "start_message"
  /\ \E id \in new_v4(issued) :
       /\ issued' = issued \cup {id}
       /\ sessions' = insert(sessions, id, FeatureExtractor_new)
       /\ mutex' = MutexGuard_drop(mutex, t)
       /\ IF call[t].op = "import_events" /\ call[t].queue # <<>>
            THEN /\ call' = [call EXCEPT ![t].fn = "push_event", ![t].id = id,
                                         ![t].event = Head(call[t].queue),
                                         ![t].queue = Tail(call[t].queue)]
                 /\ pc' = [pc EXCEPT ![t] = "lock"]
                 /\ UNCHANGED <<ret, known>>
            ELSE /\ Return(t, Result([call[t] EXCEPT !.id = id], "Ok"))
                 /\ known' = known \cup {id}
  /\ UNCHANGED <<applied, finLog, budget>>

\* api.rs 31-41: the lookup; on Some, process_event starts on the extractor
PushEventLookup(t) ==
  /\ pc[t] = "cs"
  /\ call[t].fn = "push_event"
  /\ LET id == call[t].id
         e == call[t].event
         m == get_mut(sessions, id)
     IN IF id \in DOMAIN m
          THEN /\ sessions' = [m EXCEPT ![id] = process_event_timing(record_event(@, e), e)]
               /\ pc' = [pc EXCEPT ![t] = "cs_apply"]
               /\ UNCHANGED <<mutex, call, ret>>
          ELSE /\ mutex' = MutexGuard_drop(mutex, t)
               /\ Return(t, Result(call[t], "NotFound"))
               /\ UNCHANGED sessions
  /\ UNCHANGED <<issued, known, applied, finLog, budget>>

\* api.rs 37-38: process_event finishes, push_event returns Ok(())
PushEventApply(t) ==
  /\ pc[t] = "cs_apply"
  /\ LET id == call[t].id
         e == call[t].event
     IN /\ sessions' = [sessions EXCEPT ![id] = process_event_dispatch(@, e)]
        /\ applied' = [applied EXCEPT ![id] = Append(@, e)]
        /\ mutex' = MutexGuard_drop(mutex, t)
        /\ IF call[t].op = "import_events"
             THEN IF call[t].queue # <<>>
                    THEN /\ call' = [call EXCEPT ![t].event = Head(call[t].queue),
                                                 ![t].queue = Tail(call[t].queue)]
                         /\ pc' = [pc EXCEPT ![t] = "lock"]
                         /\ UNCHANGED <<ret, known>>
                    ELSE /\ ret' = [ret EXCEPT ![t] = [Result(call[t], "Ok") EXCEPT
                                                         !.at = Len(applied'[id])]]
                         /\ pc' = [pc EXCEPT ![t] = "idle"]
                         /\ call' = [call EXCEPT ![t] = NoCall]
                         /\ known' = known \cup {id}
             ELSE /\ ret' = [ret EXCEPT ![t] = [Result(call[t], "Ok") EXCEPT
                                                  !.at = Len(applied'[id])]]
                  /\ pc' = [pc EXCEPT ![t] = "idle"]
                  /\ call' = [call EXCEPT ![t] = NoCall]
                  /\ UNCHANGED known
  /\ UNCHANGED <<issued, finLog, budget>>

LogFinalize(id, res, by) ==
  IF id \in Ids THEN [finLog EXCEPT ![id] = Append(@, [res |-> res, by |-> by])] ELSE finLog

\* api.rs 44-75 (and 143-150 when called by export_snapshot)
FinalizeMessage(t) ==
  /\ pc[t] = "cs"
  /\ call[t].fn = "finalize_message"
  /\ LET id == call[t].id
     IN IF id \in DOMAIN sessions
          THEN /\ sessions' = remove(sessions, id)
               /\ finLog' = LogFinalize(id, "Ok", call[t].op)
               /\ \E p \in finalize_profiles(sessions[id], id, call[t].text) :
                    LET profile_json == profile_to_json(p)
                    IN IF call[t].op = "export_snapshot"
                         THEN Return(t, [Result(call[t], "Ok") EXCEPT
                                           !.profile = profile_to_json(profile_from_json(profile_json)),
                                           !.events_json = events_to_json(call[t].events)])
                         ELSE Return(t, [Result(call[t], "Ok") EXCEPT !.profile = profile_json])
          ELSE /\ finLog' = LogFinalize(id, "NotFound", call[t].op)
               /\ Return(t, Result(call[t], "NotFound"))
               /\ UNCHANGED sessions
  /\ mutex' = MutexGuard_drop(mutex, t)
  /\ UNCHANGED <<issued, known, applied, budget>>

\* api.rs 77-108
PreviewMessage(t) ==
  /\ pc[t] = "cs"
  /\ call[t].fn = "preview_message"
  /\ LET id == call[t].id
     IN IF id \in DOMAIN sessions
          THEN \E p \in preview_profiles(sessions[id], id, call[t].text) :
                 Return(t, [Result(call[t], "Ok") EXCEPT !.profile = profile_to_json(p)])
          ELSE Return(t, Result(call[t], "NotFound"))
  /\ mutex' = MutexGuard_drop(mutex, t)
  /\ UNCHANGED <<sessions, issued, known, applied, finLog, budget>>

\* api.rs 110-123 (and 138-140 when called by export_snapshot)
ExportEvents(t) ==
  /\ pc[t] = "cs"
  /\ call[t].fn = "export_events"
  /\ LET id == call[t].id
     IN IF id \in DOMAIN sessions
          THEN LET events_json == events_to_json(get_events(sessions[id]))
               IN IF call[t].op = "export_snapshot"
                    THEN /\ call' = [call EXCEPT ![t].fn = "finalize_message",
                                                 ![t].events = events_from_json(events_json)]
                         /\ pc' = [pc EXCEPT ![t] = "lock"]
                         /\ UNCHANGED ret
                    ELSE Return(t, [Result(call[t], "Ok") EXCEPT
                                      !.events_json = events_json,
                                      !.origin = [has |-> TRUE, x |-> sessions[id]]])
          ELSE Return(t, Result(call[t], "NotFound"))
  /\ mutex' = MutexGuard_drop(mutex, t)
  /\ UNCHANGED <<sessions, issued, known, applied, finLog, budget>>

Step(t) ==
  \/ Acquire(t)
  \/ StartMessage(t)
  \/ PushEventLookup(t)
  \/ PushEventApply(t)
  \/ FinalizeMessage(t)
  \/ PreviewMessage(t)
  \/ ExportEvents(t)

Next ==
  \E t \in Threads :
    \/ CallStartMessage(t)
    \/ CallPushEvent(t)
    \/ CallFinalizeMessage(t)
    \/ CallPreviewMessage(t)
    \/ CallExportEvents(t)
    \/ CallExportSnapshot(t)
    \/ CallImportEventsBad(t)
    \/ CallImportEvents(t)
    \/ Acquire(t)
    \/ StartMessage(t)
    \/ PushEventLookup(t)
    \/ PushEventApply(t)
    \/ FinalizeMessage(t)
    \/ PreviewMessage(t)
    \/ ExportEvents(t)

Spec == Init /\ [][Next]_vars

\* scheduling is fair: a thread that can take a step of its call (take the free
\* mutex, run its critical section) is not left waiting forever
Fairness == \A t \in Threads : WF_vars(Step(t))

FairSpec == InitLive /\ [][Next]_vars /\ Fairness

\* ------------------------------------------------------------------------
\* One caller, one session: start_message, then push_event on the session for
\* any stream of events of every variant (timestamps in any order), then
\* finalize_message.  With a single caller no call waits for the mutex, and
\* each action is a whole call.
\* ------------------------------------------------------------------------
Caller == "t1"

StreamEvents ==
  { KeyInsert("a", 1000), KeyInsert("b", 3000),
    KeyDelete("Backspace", 2, 3000), KeyDelete("Delete", 1, 1000),
    Paste(0, 1000), Paste(4, 3000), Cut(2, 3000), CursorMove(0, 1000), CursorMove(1, 2500),
    SelectionChange(0, 2, 3000), CompositionStart(1000), CompositionEnd(3000),
    Submit(5000), Undo(3000), Redo(1000), GhostText("hm", 3000), GhostText("ok", 1000) }

StreamTexts == {<<>>, <<"H">>}

\* IflCore::new, then the caller's start_message has returned its id
InitStream ==
  /\ \E id \in new_v4({}) :
       /\ sessions = insert(<< >>, id, FeatureExtractor_new)
       /\ issued = {id}
       /\ known = {id}
       /\ ret = [t \in Threads |->
                  IF t = Caller THEN [NoRet EXCEPT !.status = "Ok", !.op = "start_message", !.id = id]
                  ELSE NoRet]
  /\ mutex = NoThread
  /\ pc = [t \in Threads |-> "idle"]
  /\ call = [t \in Threads |-> NoCall]
  /\ applied = [i \in Ids |-> <<>>]
  /\ finLog = [i \in Ids |-> <<>>]
  /\ budget = MaxStream

\* api.rs 31-42, a whole push_event call of the caller on its session
PushEventCall ==
  \E id \in DOMAIN sessions, e \in StreamEvents :
    /\ budget > 0
    /\ budget' = budget - 1
    /\ Mutex_lock(mutex)
    /\ sessions' = [get_mut(sessions, id) EXCEPT ![id] = process_event(@, e)]
    /\ applied' = [applied EXCEPT ![id] = Append(@, e)]
    /\ ret' = [ret EXCEPT ![Caller] =
                 [NoRet EXCEPT !.status = "Ok", !.op = "push_event", !.id = id, !.event = e,
                               !.seen = Len(applied[id]), !.at = Len(applied'[id])]]
    /\ UNCHANGED <<mutex, pc, call, issued, known, finLog>>

\* api.rs 44-75, a whole finalize_message call of the caller on its session
FinalizeMessageCall ==
  \E id \in DOMAIN sessions, text \in StreamTexts :
    /\ Mutex_lock(mutex)
    /\ sessions' = remove(sessions, id)
    /\ finLog' = LogFinalize(id, "Ok", "finalize_message")
    /\ \E p \in finalize_profiles(sessions[id], id, text) :
         ret' = [ret EXCEPT ![Caller] =
                   [NoRet EXCEPT !.status = "Ok", !.op = "finalize_message", !.id = id,
                                 !.text = text, !.profile = profile_to_json(p),
                                 !.seen = Len(applied[id]), !.at = Len(applied[id])]]
    /\ UNCHANGED <<mutex, pc, call, issued, known, applied, budget>>

NextStream == PushEventCall \/ FinalizeMessageCall

ExtractorSpec == InitStream /\ [][NextStream]_vars

\* ------------------------------------------------------------------------
\* RuleEngine::apply called on its own: the four feature bundles are drawn from
\* sets that put every rule condition on both sides of its threshold, the call
\* returns the tags with the two HashSets collected in some order.
\* ------------------------------------------------------------------------
RuleSources ==
  { [source_type |-> "TypedOnly", paste_ratio |-> <<0, 1>>, paste_events |-> 0, first_action |-> "Typed"],
    [source_type |-> "Mixed", paste_ratio |-> <<9, 10>>, paste_events |-> 1, first_action |-> "Paste"],
    [source_type |-> "Mixed", paste_ratio |-> <<4, 5>>, paste_events |-> 1, first_action |-> "Typed"] }

\* the timing and editing bundles of four sessions: long and much corrected,
\* quick, edited through selections, and without any event
RuleBehaviours ==
  { [ timing |-> [total_duration_ms |-> 31000, avg_chars_per_sec |-> <<1, 1>>, typing_bursts |-> 6,
                  long_pause_count |-> 3, pre_submit_pause_ms |-> 0],
      editing |-> [backspace_count |-> 21, backspace_burst_count |-> 2, undo_count |-> 0,
                   redo_count |-> 0, selection_edit_count |-> 0, efficiency_score |-> <<1, 2>>] ],
    [ timing |-> [total_duration_ms |-> 1000, avg_chars_per_sec |-> <<6, 1>>, typing_bursts |-> 1,
                  long_pause_count |-> 0, pre_submit_pause_ms |-> 0],
      editing |-> [backspace_count |-> 0, backspace_burst_count |-> 0, undo_count |-> 0,
                   redo_count |-> 0, selection_edit_count |-> 0, efficiency_score |-> <<1, 1>>] ],
    [ timing |-> [total_duration_ms |-> 30000, avg_chars_per_sec |-> <<9, 2>>, typing_bursts |-> 1,
                  long_pause_count |-> 0, pre_submit_pause_ms |-> 0],
      editing |-> [backspace_count |-> 11, backspace_burst_count |-> 1, undo_count |-> 1,
                   redo_count |-> 1, selection_edit_count |-> 3, efficiency_score |-> <<1, 1>>] ],
    [ timing |-> [total_duration_ms |-> 0, avg_chars_per_sec |-> <<0, 1>>, typing_bursts |-> 0,
                  long_pause_count |-> 0, pre_submit_pause_ms |-> 0],
      editing |-> [backspace_count |-> 0, backspace_burst_count |-> 0, undo_count |-> 0,
                   redo_count |-> 0, selection_edit_count |-> 0, efficiency_score |-> <<1, 1>>] ] }

\* char_count, line_count and bullet_lines of four texts
RuleShapes ==
  { [char_count |-> 10, line_count |-> 1, bullet_lines |-> 0],
    [char_count |-> 40, line_count |-> 2, bullet_lines |-> 0],
    [char_count |-> 100, line_count |-> 3, bullet_lines |-> 0],
    [char_count |-> 501, line_count |-> 4, bullet_lines |-> 3] }

\* japanese_detected, is_polite, is_direct
RuleLanguages ==
  { [japanese_detected |-> FALSE, is_polite |-> FALSE, is_direct |-> FALSE],
    [japanese_detected |-> TRUE, is_polite |-> TRUE, is_direct |-> FALSE],
    [japanese_detected |-> TRUE, is_polite |-> FALSE, is_direct |-> TRUE] }

RuleStructures ==
  { [ char_count |-> sh.char_count,
      line_count |-> sh.line_count,
      avg_line_length |-> Ratio(sh.char_count, sh.line_count),
      bullet_lines |-> sh.bullet_lines,
      has_code_block |-> FALSE,
      question_like |-> q,
      command_like |-> c,
      japanese_detected |-> lang.japanese_detected,
      request_summary |-> rs,
      request_implementation |-> ri,
      is_polite |-> lang.is_polite,
      is_direct |-> lang.is_direct ] :
    sh \in RuleShapes, lang \in RuleLanguages, q \in BOOLEAN, c \in BOOLEAN,
    rs \in BOOLEAN, ri \in BOOLEAN }

\* the caller is about to call RuleEngine::apply(&source, &timing, &editing, &structure)
InitRules ==
  /\ sessions = << >>
  /\ mutex = NoThread
  /\ pc = [t \in Threads |-> "idle"]
  /\ \E source \in RuleSources, b \in RuleBehaviours, structure \in RuleStructures :
       call = [t \in Threads |->
                 IF t = Caller
                   THEN [ op |-> "apply", source |-> source, timing |-> b.timing,
                          editing |-> b.editing, structure |-> structure ]
                   ELSE NoCall]
  /\ ret = [t \in Threads |-> NoRet]
  /\ issued = {}
  /\ known = {}
  /\ applied = [i \in Ids |-> <<>>]
  /\ finLog = [i \in Ids |-> <<>>]
  /\ budget = 1

\* rules.rs 10-155: the call returns the AnswerTags
ApplyRules ==
  /\ budget > 0
  /\ budget' = budget - 1
  /\ LET c == call[Caller]
         tags == apply(c.source, c.timing, c.editing, c.structure)
     IN \E answer_mode \in collect(tags.answer_mode), user_state \in collect(tags.user_state) :
          ret' = [ret EXCEPT ![Caller] =
                    [ status |-> "Ok", op |-> "apply",
                      tags |-> [tags EXCEPT !.answer_mode = answer_mode, !.user_state = user_state] ]]
  /\ UNCHANGED <<sessions, mutex, pc, call, issued, known, applied, finLog>>

RuleSpec == InitRules /\ [][ApplyRules]_vars

\* ------------------------------------------------------------------------
\* UserStateSpec: RuleEngine::apply on bundles that put avg_chars_per_sec,
\* long_pause_count, typing_bursts, backspace_count, selection_edit_count and
\* paste_ratio below, on and above every threshold of the user-state detection
\* ------------------------------------------------------------------------
UserStateSources ==
  { [source_type |-> "Mixed", paste_ratio |-> pr, paste_events |-> 1, first_action |-> "Typed"] :
      pr \in {<<1, 2>>, <<3, 5>>} }

\* avg_chars_per_sec from 1.5 to 5.5 in steps of 0.5
UserStateBehaviours ==
  { [ timing |-> [total_duration_ms |-> 10000, avg_chars_per_sec |-> avg, typing_bursts |-> tb,
                  long_pause_count |-> lp, pre_submit_pause_ms |-> 0],
      editing |-> [backspace_count |-> bc, backspace_burst_count |-> 0, undo_count |-> 0,
                   redo_count |-> 0, selection_edit_count |-> se, efficiency_score |-> <<1, 1>>] ] :
      avg \in {<<k, 2>> : k \in 3..11}, tb \in {5, 6}, lp \in {0, 2, 3}, bc \in {0, 4, 5, 10, 11},
      se \in {2, 3} }

\* the structure of a plain three-line text
UserStateStructure ==
  [ char_count |-> 100, line_count |-> 3, avg_line_length |-> Ratio(100, 3), bullet_lines |-> 0,
    has_code_block |-> FALSE, question_like |-> FALSE, command_like |-> FALSE,
    japanese_detected |-> FALSE, request_summary |-> FALSE, request_implementation |-> FALSE,
    is_polite |-> FALSE, is_direct |-> FALSE ]

InitUserStates ==
  /\ sessions = << >>
  /\ mutex = NoThread
  /\ pc = [t \in Threads |-> "idle"]
  /\ \E source \in UserStateSources, b \in UserStateBehaviours :
       call = [t \in Threads |->
                 IF t = Caller
                   THEN [ op |-> "apply", source |-> source, timing |-> b.timing,
                          editing |-> b.editing, structure |-> UserStateStructure ]
                   ELSE NoCall]
  /\ ret = [t \in Threads |-> NoRet]
  /\ issued = {}
  /\ known = {}
  /\ applied = [i \in Ids |-> <<>>]
  /\ finLog = [i \in Ids |-> <<>>]
  /\ budget = 1

UserStateSpec == InitUserStates /\ [][ApplyRules]_vars

\* ------------------------------------------------------------------------
\* Properties
\* ------------------------------------------------------------------------
RECURSIVE Replay(_)
Replay(events) ==
  IF events = <<>> THEN FeatureExtractor_new
  ELSE process_event(Replay(SubSeq(events, 1, Len(events) - 1)), events[Len(events)])

NonDecreasing(events) == \A i \in 1..(Len(events) - 1) : events[i].ts <= events[i + 1].ts

\* a profile without its message id, the two collected sets compared as sets
Features(p) ==
  [ source |-> p.source, timing |-> p.timing, editing |-> p.editing, structure |-> p.structure,
    tags |-> [p.tags EXCEPT !.answer_mode = Range(@), !.user_state = Range(@)],
    ghost_text |-> p.ghost_text ]

FinalizeJson(x, id, text) == {profile_to_json(p) : p \in finalize_profiles(x, id, text)}

PreviewJson(x, id, text) == {profile_to_json(p) : p \in preview_profiles(x, id, text)}

Returned(t, op, status) == ret[t].op = op /\ ret[t].status = status

C2_MissingIdNotFound ==
  [][\A t \in Threads :
       (/\ pc[t] = "cs"
        /\ pc'[t] # "cs"
        /\ call[t].fn \in {"push_event", "preview_message", "finalize_message", "export_events"}
        /\ call[t].id \notin DOMAIN sessions)
       => (/\ pc'[t] = "idle"
           /\ ret'[t].status = "NotFound"
           /\ ret'[t].op = call[t].op
           /\ sessions' = sessions)]_vars

C2_Witness ==
  \E t \in Threads :
    /\ Returned(t, "export_snapshot", "NotFound")
    /\ DOMAIN sessions # {}

\* C3: a session created by import_events from the export_events of a session
\* whose event stream has non-decreasing timestamps finalizes, for every text,
\* to the same features, tags and ghost text as the exported session (as long
\* as no further event has been pushed to it or is being applied to it).
C3_RoundTrip ==
  \A t \in Threads :
    (/\ Returned(t, "import_events", "Ok")
     /\ ret[t].origin.has
     /\ NonDecreasing(get_events(ret[t].origin.x))
     /\ ret[t].id \in DOMAIN sessions
     /\ Len(applied[ret[t].id]) = ret[t].at
     /\ \A u \in Threads : ~(pc[u] = "cs_apply" /\ call[u].id = ret[t].id))
    => \A text \in Texts :
         {Features(p) : p \in finalize_profiles(sessions[ret[t].id], ret[t].id, text)}
           = {Features(p) : p \in finalize_profiles(ret[t].origin.x, ret[t].id, text)}

C3_Witness ==
  \E t \in Threads :
    /\ Returned(t, "import_events", "Ok")
    /\ ret[t].origin.has
    /\ Len(get_events(ret[t].origin.x)) >= 2
    /\ NonDecreasing(get_events(ret[t].origin.x))
    /\ ret[t].id \in DOMAIN sessions
    /\ Len(applied[ret[t].id]) = ret[t].at

\* C4: the profile finalize_message returns for an id is computed from exactly
\* the events whose push_event on that id returned Ok: a push that returned Ok
\* is reflected, a push that returned NotFound is not.
C4_FinalizeAtomic ==
  \A t \in Threads :
    Returned(t, "finalize_message", "Ok")
    => ret[t].profile \in FinalizeJson(Replay(applied[ret[t].id]), ret[t].id, ret[t].text)

C4_Witness ==
  \E t \in Threads, u \in Threads :
    /\ Returned(t, "finalize_message", "Ok")
    /\ Returned(u, "push_event", "Ok")
    /\ ret[u].id = ret[t].id
    /\ ~ret[t].alone
    /\ ~ret[u].alone

\* C5: the profile preview_message returns is computed from the extractor state
\* after a prefix of the events applied to the id; the prefix holds every push
\* that returned before the preview was called and nothing applied after the
\* preview ran, and no half-applied event.
C5_PreviewSnapshot ==
  \A t \in Threads :
    Returned(t, "preview_message", "Ok")
    => /\ ret[t].seen <= ret[t].at
       /\ ret[t].at <= Len(applied[ret[t].id])
       /\ ret[t].profile \in
            PreviewJson(Replay(SubSeq(applied[ret[t].id], 1, ret[t].at)), ret[t].id, ret[t].text)

C5_Witness ==
  \E t \in Threads :
    /\ Returned(t, "preview_message", "Ok")
    /\ ~ret[t].alone
    /\ ret[t].seen < ret[t].at

\* C6: the extractor of a session is the result of processing, in serving order,
\* exactly the events whose push_event returned Ok, and export_events returns
\* that sequence, nothing dropped, duplicated or reordered.
C6_EventOrder ==
  /\ \A id \in DOMAIN sessions :
       (\A t \in Threads : ~(pc[t] = "cs_apply" /\ call[t].id = id))
       => sessions[id] = Replay(applied[id])
  /\ \A t \in Threads :
       Returned(t, "export_events", "Ok")
       => /\ events_parse_ok(ret[t].events_json)
          /\ events_from_json(ret[t].events_json) = SubSeq(applied[ret[t].id], 1, ret[t].at)

C6_Witness ==
  \E t \in Threads :
    /\ Returned(t, "export_events", "Ok")
    /\ ret[t].at >= 3
    /\ ~NonDecreasing(events_from_json(ret[t].events_json))

\* C7: no call takes the session-map lock while it holds it, and under fair
\* scheduling every started call returns.
C7_NoDeadlock ==
  /\ [](\A t \in Threads : pc[t] = "lock" => mutex # t)
  /\ \A t \in Threads : (pc[t] # "idle") ~> (pc[t] = "idle")

C7_Witness ==
  \E t \in Threads, u \in Threads :
    /\ t # u
    /\ pc[t] = "lock"
    /\ call[t].op = "import_events"
    /\ call[t].fn = "push_event"
    /\ mutex = u

\* C8: preview_message leaves the session map as it was, and the profile it
\* returns for (id, text) is one finalize_message would return for (id, text).
C8_PreviewNonDestructive ==
  [][\A t \in Threads :
       (/\ pc[t] = "cs"
        /\ pc'[t] = "idle"
        /\ call[t].fn = "preview_message"
        /\ call[t].id \in DOMAIN sessions)
       => (/\ sessions' = sessions
           /\ ret'[t].status = "Ok"
           /\ ret'[t].profile \in FinalizeJson(sessions[call[t].id], call[t].id, call[t].text))]_vars

C8_Witness ==
  \E t \in Threads :
    /\ Returned(t, "preview_message", "Ok")
    /\ ret[t].id \in DOMAIN sessions
    /\ ret[t].at >= 1

\* C9: after export_snapshot(id, text) returned Ok the session id is still in
\* the map, unless a finalize_message called by the user removed it.
C9_SnapshotKeepsSession ==
  \A t \in Threads :
    (/\ Returned(t, "export_snapshot", "Ok")
     /\ \A k \in 1..Len(finLog[ret[t].id]) :
          finLog[ret[t].id][k].by = "finalize_message" => finLog[ret[t].id][k].res = "NotFound")
    => ret[t].id \in DOMAIN sessions

\* C10: with no other call in flight, export_snapshot(id, text) returns the
\* session's whole event log in push order and a profile finalize_message(id,
\* text) would return.
C10_SnapshotAlone ==
  \A t \in Threads :
    (Returned(t, "export_snapshot", "Ok") /\ ret[t].alone)
    => /\ events_parse_ok(ret[t].events_json)
       /\ events_from_json(ret[t].events_json) = applied[ret[t].id]
       /\ ret[t].profile \in FinalizeJson(Replay(applied[ret[t].id]), ret[t].id, ret[t].text)

C10_Witness ==
  \E t \in Threads :
    /\ Returned(t, "export_snapshot", "Ok")
    /\ ret[t].alone
    /\ Len(applied[ret[t].id]) >= 2
    /\ Len(ret[t].profile.ghost_text) >= 1

\* ------------------------------------------------------------------------
\* Properties of the extractor (under ExtractorSpec)
\* ------------------------------------------------------------------------
CountFields ==
  { "paste_events", "total_pasted_chars", "total_typed_chars", "typing_bursts",
    "long_pause_count", "backspace_count", "backspace_burst_count", "undo_count",
    "redo_count", "selection_edit_count" }

\* the KeyInsert events of a stream, and the characters its Paste events brought
TypedIn(events) == Cardinality({i \in 1..Len(events) : events[i].type = "KeyInsert"})

RECURSIVE PastedIn(_)
PastedIn(events) ==
  IF events = <<>> THEN 0
  ELSE (IF Head(events).type = "Paste" THEN Head(events).length ELSE 0) + PastedIn(Tail(events))

TypesIn(events) == {events[i].type : i \in 1..Len(events)}

\* the caller's finalize_message has returned a profile
Finalized == Returned(Caller, "finalize_message", "Ok")

FinalProfile == profile_from_json(ret[Caller].profile)

FinalStream == applied[ret[Caller].id]

FinalCharCount == Len(ret[Caller].text)

\* C11: across every applied process_event, whatever the variant, no
\* accumulated count of the extractor decreases, and neither the event log nor
\* the ghost-text list gets shorter.
C11_CountsMonotonic ==
  [][\A id \in DOMAIN sessions \cap DOMAIN sessions' :
       /\ \A f \in CountFields : sessions'[id][f] >= sessions[id][f]
       /\ Len(sessions'[id].events) >= Len(sessions[id].events)
       /\ Len(sessions'[id].ghost_texts) >= Len(sessions[id].ghost_texts)]_vars

C11_Witness ==
  \E id \in DOMAIN sessions :
    /\ Len(applied[id]) = 3
    /\ applied[id][1].type = "Undo"
    /\ applied[id][2].type = "Redo"
    /\ applied[id][3].type = "KeyDelete"
    /\ sessions[id].undo_count = 1
    /\ sessions[id].backspace_count = 2

\* C12: source_type is TypedOnly exactly when nothing was pasted and something
\* typed, PasteOnly exactly when nothing was typed and something pasted, and
\* Mixed in every other case, both counts zero included.
C12_SourceType ==
  /\ \A id \in DOMAIN sessions :
       LET typed == TypedIn(applied[id])
           pasted == PastedIn(applied[id])
           source_type == extract_source_features(sessions[id]).source_type
       IN /\ (source_type = "TypedOnly") <=> (pasted = 0 /\ typed > 0)
          /\ (source_type = "PasteOnly") <=> (typed = 0 /\ pasted > 0)
          /\ (source_type = "Mixed") <=> ((typed > 0 /\ pasted > 0) \/ (typed = 0 /\ pasted = 0))
  /\ Finalized =>
       LET typed == TypedIn(FinalStream)
           pasted == PastedIn(FinalStream)
           source_type == FinalProfile.source.source_type
       IN /\ (source_type = "TypedOnly") <=> (pasted = 0 /\ typed > 0)
          /\ (source_type = "PasteOnly") <=> (typed = 0 /\ pasted > 0)
          /\ (source_type = "Mixed") <=> ((typed > 0 /\ pasted > 0) \/ (typed = 0 /\ pasted = 0))

C12_Witness ==
  /\ Finalized
  /\ "Paste" \in TypesIn(FinalStream)
  /\ TypedIn(FinalStream) = 0
  /\ PastedIn(FinalStream) = 0
  /\ FinalProfile.source.source_type = "Mixed"

\* C13: paste_ratio is total_pasted_chars / (total_typed_chars +
\* total_pasted_chars), lies in [0,1], and is 0 when both counts are zero.
C13_PasteRatio ==
  /\ \A id \in DOMAIN sessions :
       LET typed == TypedIn(applied[id])
           pasted == PastedIn(applied[id])
           r == extract_source_features(sessions[id]).paste_ratio
       IN /\ r[2] > 0 /\ 0 <= r[1] /\ r[1] <= r[2]
          /\ r[1] * (typed + pasted) = pasted * r[2]
          /\ (typed + pasted = 0) => (r[1] = 0)
  /\ Finalized =>
       LET typed == TypedIn(FinalStream)
           pasted == PastedIn(FinalStream)
           r == FinalProfile.source.paste_ratio
       IN /\ r[2] > 0 /\ 0 <= r[1] /\ r[1] <= r[2]
          /\ r[1] * (typed + pasted) = pasted * r[2]
          /\ (typed + pasted = 0) => (r[1] = 0)

C13_Witness ==
  /\ Finalized
  /\ TypedIn(FinalStream) = 1
  /\ PastedIn(FinalStream) = 4
  /\ FinalProfile.source.paste_ratio = <<4, 5>>

C15_NoTypingEfficiency ==
  (Finalized /\ TypedIn(FinalStream) = 0) => (FinalProfile.editing.efficiency_score = <<1, 1>>)

C15_Witness ==
  /\ Finalized
  /\ TypedIn(FinalStream) = 0
  /\ FinalStream # <<>>
  /\ FinalCharCount = 0
  /\ FinalProfile.editing.efficiency_score = <<1, 1>>

\* C17: typing_bursts is at least 1 once an event has been processed, and 0
\* only for an extractor that has processed none.
C17_FirstBurst ==
  \A id \in DOMAIN sessions :
    /\ (Len(applied[id]) >= 1) => (sessions[id].typing_bursts >= 1)
    /\ (sessions[id].typing_bursts = 0) <=> (Len(applied[id]) = 0)

C17_Witness ==
  \E id \in DOMAIN sessions :
    /\ Len(applied[id]) = 2
    /\ applied[id][1].type = "Submit"
    /\ sessions[id].typing_bursts = 1

\* C18: once an event has been processed, long_pause_count is at most
\* typing_bursts - 1.
C18_LongPauses ==
  \A id \in DOMAIN sessions :
    (Len(applied[id]) >= 1) => (sessions[id].long_pause_count <= sessions[id].typing_bursts - 1)

C18_Witness ==
  \E id \in DOMAIN sessions :
    /\ Len(applied[id]) = 3
    /\ sessions[id].long_pause_count = 2
    /\ sessions[id].typing_bursts = 3

\* ------------------------------------------------------------------------
\* Properties of the registry (under Spec), continued
\* ------------------------------------------------------------------------
\* C19: every start_message, the one inside import_events included, takes an
\* id that no earlier call produced or returned, inserts a fresh extractor
\* under it and leaves every existing session as it was; the id a call returns
\* was returned by no earlier call.
C19_FreshSession ==
  [][\A t \in Threads :
       /\ (pc[t] = "cs" /\ call[t].fn = "start_message" /\ pc'[t] # "cs")
            => \E id \in Ids :
                 /\ id \notin issued \cup known \cup DOMAIN sessions
                 /\ DOMAIN sessions' = DOMAIN sessions \cup {id}
                 /\ sessions'[id] = FeatureExtractor_new
                 /\ \A i \in DOMAIN sessions : sessions'[i] = sessions[i]
                 /\ (pc'[t] = "idle") => (ret'[t].status = "Ok" /\ ret'[t].id = id)
                 /\ (pc'[t] = "lock") => (call'[t].id = id)
       /\ (pc[t] # "idle" /\ pc'[t] = "idle" /\ ret'[t].status = "Ok"
            /\ ret'[t].op \in {"start_message", "import_events"})
            => (ret'[t].id \notin known)]_vars

C19_Witness ==
  \E t \in Threads :
    /\ Returned(t, "start_message", "Ok")
    /\ ret[t].id \in DOMAIN sessions
    /\ sessions[ret[t].id] = FeatureExtractor_new
    /\ \E id \in DOMAIN sessions : id < ret[t].id /\ Len(applied[id]) = 2

\* ------------------------------------------------------------------------
\* Properties of the rule engine (under RuleSpec)
\* ------------------------------------------------------------------------
RulesApplied == ret[Caller].status = "Ok" /\ ret[Caller].op = "apply"

\* the deltas of the rule table, in tenths, of the rules whose condition holds
\* for the bundles of the call
RuleDeltas ==
  LET source == call[Caller].source
      timing == call[Caller].timing
      editing == call[Caller].editing
      structure == call[Caller].structure
  IN (IF source.paste_ratio[1] * 10 > 8 * source.paste_ratio[2] /\ structure.line_count >= 3
        THEN 2 ELSE 0)
     + (IF source.source_type = "TypedOnly" /\ timing.total_duration_ms > 30000
           /\ editing.backspace_count > 20 THEN 2 ELSE 0)
     + (IF structure.line_count <= 2 /\ structure.char_count < 40 THEN 1 ELSE 0)
     + (IF source.source_type = "Mixed" /\ editing.selection_edit_count > 2 THEN 2 ELSE 0)
     + (IF structure.bullet_lines > 2 THEN 1 ELSE 0)
     + (IF structure.question_like THEN 1 ELSE 0)
     + (IF structure.command_like THEN 1 ELSE 0)
     + (IF structure.japanese_detected THEN 1 ELSE 0)
     + (IF structure.request_summary THEN 3 ELSE 0)
     + (IF structure.request_implementation THEN 3 ELSE 0)

Abs(n) == IF n < 0 THEN 0 - n ELSE n

\* C16: the confidence apply returns is min(1.0, 0.5 + the deltas of the rules
\* that hold), to within the rounding of the f32 additions (four times the
\* spacing of f32 at 1.0); it lies in [0.5, 1.0], is exactly 1.0 when the sum
\* exceeds 1.0, and is at least 0.8 when request_summary or
\* request_implementation holds.
C16_Confidence ==
  RulesApplied =>
    LET confidence == ret[Caller].tags.confidence
        tenths == 5 + RuleDeltas
    IN /\ F32_0_5 <= confidence /\ confidence <= F32_1_0
       /\ Abs(10 * confidence - Min(10, tenths) * F32_1_0) <= 10 * 4 * f32_ulp(F32_1_0)
       /\ (tenths > 10) => (confidence = F32_1_0)
       /\ (call[Caller].structure.request_summary \/ call[Caller].structure.request_implementation)
            => (10 * confidence >= 8 * F32_1_0)

C16_Witness ==
  /\ RulesApplied
  /\ RuleDeltas = 8
  /\ call[Caller].structure.request_summary
  /\ call[Caller].structure.request_implementation
  /\ ret[Caller].tags.confidence = F32_1_0

\* profile.rs 85-92: the variants of AnswerMode in declaration order
AnswerModeOrder == <<"Summarize", "Structure", "Refine", "Explore", "Complete", "ClarifyQuestion">>

\* the variants of UserState in declaration order
UserStateOrder == <<"Hesitant", "Flowing", "Editing", "Scattered", "Pasting", "Focused">>

IndexIn(order, v) == CHOOSE i \in 1..Len(order) : order[i] = v

InDeclaredOrder(order, q) ==
  \A i \in 1..(Len(q) - 1) : IndexIn(order, q[i]) < IndexIn(order, q[i + 1])

\* C20: the answer_mode and user_state sequences of the returned tags are in
\* the declared enum order, so that identical bundles give identical sequences.
C20_DeclaredOrder ==
  RulesApplied =>
    /\ InDeclaredOrder(AnswerModeOrder, ret[Caller].tags.answer_mode)
    /\ InDeclaredOrder(UserStateOrder, ret[Caller].tags.user_state)

\* ------------------------------------------------------------------------
\* import_events
\* ------------------------------------------------------------------------
\* thread t, inside import_events and holding the lock, takes a step
ImportStep(t) ==
  /\ call[t].op = "import_events"
  /\ pc[t] \in {"cs", "cs_apply"}
  /\ pc'[t] # pc[t]

\* thread t receives the result of an import_events call in this step
ImportReturns(t, status) ==
  /\ ret'[t] # ret[t]
  /\ ret'[t].op = "import_events"
  /\ ret'[t].status = status

\* C21: an import_events that returns BadInput was given a text that does not
\* parse and leaves the session map as it was; an import_events of a
\* well-formed list inserts one session under an unused id, changes no other
\* session in any of its steps, and returns the id of a session whose extractor
\* is a fresh one with the listed events processed in list order.
C21_ImportEvents ==
  [][\A t \in Threads :
       /\ ImportReturns(t, "BadInput")
          => /\ ~events_parse_ok(ret'[t].events_json)
             /\ sessions' = sessions
             /\ issued' = issued
       /\ ImportStep(t)
          => /\ \A j \in DOMAIN sessions : j # call[t].id => j \in DOMAIN sessions' /\ sessions'[j] = sessions[j]
             /\ IF call[t].fn = "start_message"
                  THEN \E id \in Ids \ (DOMAIN sessions \cup issued) :
                         /\ DOMAIN sessions' = DOMAIN sessions \cup {id}
                         /\ sessions'[id] = FeatureExtractor_new
                  ELSE DOMAIN sessions' = DOMAIN sessions
       /\ ImportReturns(t, "Ok")
          => /\ ret'[t].id \in DOMAIN sessions'
             /\ ret'[t].id \notin known
             /\ sessions'[ret'[t].id] = Replay(call[t].events)
  ]_vars

C21_Witness ==
  \E t \in Threads, u \in Threads :
    /\ Returned(t, "import_events", "Ok")
    /\ ret[t].at >= 2
    /\ ret[t].id \in DOMAIN sessions
    /\ sessions[ret[t].id].paste_events = 1
    /\ DOMAIN sessions \ {ret[t].id} # {}
    /\ Returned(u, "import_events", "BadInput")

\* ------------------------------------------------------------------------
\* Selections and the pause before Submit (under ExtractorSpec)
\* ------------------------------------------------------------------------
\* a non-empty selection is pending after the stream: the most recent
\* SelectionChange had end > start and no KeyInsert or Paste came since
RECURSIVE PendingSelection(_)
PendingSelection(events) ==
  IF events = <<>> THEN FALSE
  ELSE LET e == events[Len(events)]
       IN IF e.type = "SelectionChange" THEN e.end > e.start
          ELSE IF e.type \in {"KeyInsert", "Paste"} THEN FALSE
          ELSE PendingSelection(SubSeq(events, 1, Len(events) - 1))

\* the KeyInsert events of the stream that arrive on a pending selection
SelectionEdits(events) ==
  Cardinality({i \in 1..Len(events) :
                 events[i].type = "KeyInsert" /\ PendingSelection(SubSeq(events, 1, i - 1))})

\* C22: selection_edit_count is the number of KeyInsert events processed while
\* a non-empty selection was pending (each adds exactly 1 and uses the
\* selection up, every other KeyInsert adds nothing), in the extractor and in
\* the finalized profile.
C22_SelectionEdit ==
  /\ \A id \in DOMAIN sessions :
       sessions[id].selection_edit_count = SelectionEdits(applied[id])
  /\ Finalized => FinalProfile.editing.selection_edit_count = SelectionEdits(FinalStream)

SubmitsIn(events) == {i \in 1..Len(events) : events[i].type = "Submit"}

\* C23: with no Submit in the stream pre_submit_pause_ms is 0; with one Submit
\* that follows an event and is not earlier than it, pre_submit_pause_ms is the
\* Submit's ts minus the ts of the event processed just before it.
C23_PreSubmitPause ==
  Finalized =>
    /\ SubmitsIn(FinalStream) = {} => FinalProfile.timing.pre_submit_pause_ms = 0
    /\ \A i \in SubmitsIn(FinalStream) :
         (SubmitsIn(FinalStream) = {i} /\ i > 1 /\ FinalStream[i].ts >= FinalStream[i - 1].ts)
         => FinalProfile.timing.pre_submit_pause_ms = FinalStream[i].ts - FinalStream[i - 1].ts

\* ------------------------------------------------------------------------
\* Modes and tone of the rule engine (under RuleSpec)
\* ------------------------------------------------------------------------
\* the rules of the table that add modes: whether the condition holds for the
\* bundles of the call, and the modes of the effect
ModeRules ==
  LET source == call[Caller].source
      timing == call[Caller].timing
      editing == call[Caller].editing
      structure == call[Caller].structure
  IN << [ fires |-> source.paste_ratio[1] * 10 > 8 * source.paste_ratio[2] /\ structure.line_count >= 3,
          modes |-> {"Summarize", "Structure"} ],
        [ fires |-> source.source_type = "TypedOnly" /\ timing.total_duration_ms > 30000
                      /\ editing.backspace_count > 20,
          modes |-> {"Refine", "ClarifyQuestion"} ],
        [ fires |-> structure.line_count <= 2 /\ structure.char_count < 40,
          modes |-> {"Explore", "ClarifyQuestion"} ],
        [ fires |-> source.source_type = "Mixed" /\ editing.selection_edit_count > 2,
          modes |-> {"Complete"} ],
        [ fires |-> structure.bullet_lines > 2, modes |-> {"Structure"} ],
        [ fires |-> structure.question_like, modes |-> {"ClarifyQuestion"} ],
        [ fires |-> structure.request_summary, modes |-> {"Summarize"} ],
        [ fires |-> structure.request_implementation, modes |-> {"Complete", "Structure"} ] >>

FiringModeRules == {i \in DOMAIN ModeRules : ModeRules[i].fires}

ReturnedModes == Range(ret[Caller].tags.answer_mode)

C25_Fallback ==
  RulesApplied =>
    /\ ret[Caller].tags.answer_mode # <<>>
    /\ FiringModeRules = {} => ret[Caller].tags.answer_mode = <<"Explore">>
    /\ (FiringModeRules # {} /\ 3 \notin FiringModeRules) => "Explore" \notin ReturnedModes

C25_Witness ==
  /\ RulesApplied
  /\ FiringModeRules = {}
  /\ call[Caller].structure.command_like
  /\ call[Caller].structure.japanese_detected
  /\ ret[Caller].tags.answer_mode = <<"Explore">>

IsBackspace(e) == e.type = "KeyDelete" /\ e.kind = "Backspace"

IsDelete(e) == e.type = "KeyDelete" /\ e.kind = "Delete"

NotGhostText(e) == e.type # "GhostText"

\* the input events of a stream: the GhostText records are set aside
InputsOf(events) == SelectSeq(events, NotGhostText)

\* the maximal runs of consecutive Backspace events of a stream
BackspaceRuns(events) ==
  Cardinality({i \in 1..Len(events) :
                 IsBackspace(events[i]) /\ (i = 1 \/ ~IsBackspace(events[i - 1]))})

\* the events the claim C27 lists as ending a run
RunEnders ==
  {"KeyInsert", "Paste", "Cut", "SelectionChange", "Undo", "Redo", "Submit", "CursorMove"}

\* the push_event of this step was applied to session id
Pushed(id) ==
  /\ id \in DOMAIN sessions
  /\ id \in DOMAIN sessions'
  /\ Len(applied'[id]) = Len(applied[id]) + 1

PushedEvent(id) == applied'[id][Len(applied'[id])]

C28_DeleteKey ==
  [][\A id \in Ids :
       (Pushed(id) /\ IsDelete(PushedEvent(id)))
       => /\ sessions'[id].backspace_count = sessions[id].backspace_count + PushedEvent(id).count
          /\ sessions'[id].backspace_burst_count = sessions[id].backspace_burst_count
          /\ ~sessions'[id].in_backspace_burst
  ]_vars

\* C29: a Cut{length} adds length to backspace_count, leaves
\* backspace_burst_count, paste_events, total_pasted_chars and
\* total_typed_chars as they were and clears in_backspace_burst.
C29_Cut ==
  [][\A id \in Ids :
       (Pushed(id) /\ PushedEvent(id).type = "Cut")
       => /\ sessions'[id].backspace_count = sessions[id].backspace_count + PushedEvent(id).length
          /\ \A f \in {"backspace_burst_count", "paste_events", "total_pasted_chars",
                        "total_typed_chars"} : sessions'[id][f] = sessions[id][f]
          /\ ~sessions'[id].in_backspace_burst
  ]_vars

\* the fields every event may change: the timing state and the event log
TimingFields == {"start_time", "last_event_time", "typing_bursts", "long_pause_count", "events"}

\* C30: CompositionStart and CompositionEnd change nothing but the timing
\* state and the event log, in_backspace_burst included; CursorMove does the
\* same except that it clears in_backspace_burst.
C30_TimingOnly ==
  [][\A id \in Ids :
       Pushed(id) =>
         LET e == PushedEvent(id)
             x == sessions[id]
             y == sessions'[id]
         IN /\ e.type \in {"CompositionStart", "CompositionEnd"}
               => \A f \in DOMAIN x \ TimingFields : y[f] = x[f]
            /\ e.type = "CursorMove"
               => /\ \A f \in DOMAIN x \ (TimingFields \cup {"in_backspace_burst"}) : y[f] = x[f]
                  /\ ~y.in_backspace_burst
  ]_vars

\* ------------------------------------------------------------------------
\* first_action and the timing state (under ExtractorSpec)
\* ------------------------------------------------------------------------
\* what the first KeyInsert or Paste of a stream makes of first_action
FirstActionOf(events) ==
  LET idx == {i \in 1..Len(events) : events[i].type \in {"KeyInsert", "Paste"}}
  IN IF idx = {} THEN "None"
     ELSE LET first == CHOOSE i \in idx : \A j \in idx : i <= j
          IN IF events[first].type = "Paste" THEN "Paste" ELSE "Typed"

\* C31: first_action is set by the first KeyInsert (Typed) or Paste (Paste) of
\* the stream, events of other variants before it do not set it, no later
\* event changes it, and the profile reports Other exactly when the stream has
\* neither a KeyInsert nor a Paste.
C31_FirstAction ==
  [][/\ \A id \in Ids :
          Pushed(id) =>
            LET e == PushedEvent(id)
                x == sessions[id]
                y == sessions'[id]
            IN /\ x.first_action # "None" => y.first_action = x.first_action
               /\ (x.first_action = "None" /\ e.type \notin {"KeyInsert", "Paste"})
                    => y.first_action = "None"
               /\ y.first_action = FirstActionOf(applied'[id])
     /\ (Finalized =>
           /\ (FinalProfile.source.first_action = "Other")
                <=> (FirstActionOf(FinalStream) = "None")
           /\ FirstActionOf(FinalStream) # "None"
                => FinalProfile.source.first_action = FirstActionOf(FinalStream))'
  ]_vars

C31_Witness ==
  /\ Finalized
  /\ Len(FinalStream) = 3
  /\ FinalStream[1].type = "SelectionChange"
  /\ FinalStream[2].type = "Paste"
  /\ FinalStream[3].type = "KeyInsert"
  /\ FinalProfile.source.first_action = "Paste"

\* the last timestamp of a stream minus the first, 0 when that is negative
DurationOf(events) ==
  IF events = <<>> THEN 0
  ELSE IF events[Len(events)].ts >= events[1].ts THEN events[Len(events)].ts - events[1].ts
  ELSE 0

\* C32: start_time is the timestamp of the first processed event and no later
\* event changes it; total_duration_ms is the last processed timestamp minus
\* start_time, and 0 when the last timestamp is the smaller one.
C32_Duration ==
  [][/\ \A id \in Ids :
          Pushed(id) =>
            /\ sessions'[id].start_time = applied'[id][1].ts
            /\ sessions[id].start_time # NoTime => sessions'[id].start_time = sessions[id].start_time
            /\ sessions'[id].last_event_time = PushedEvent(id).ts
     /\ (Finalized => FinalProfile.timing.total_duration_ms = DurationOf(FinalStream))'
  ]_vars

C32_Witness ==
  /\ Finalized
  /\ Len(FinalStream) = 3
  /\ FinalStream[1].ts = 3000
  /\ FinalStream[2].ts = 5000
  /\ FinalStream[3].ts = 1000
  /\ FinalProfile.timing.total_duration_ms = 0

\* C33: an event after the first adds 1 to long_pause_count and to
\* typing_bursts when it comes more than 1500 ms after the event before it, and
\* changes neither when the gap is 1500 ms or less, or negative; with at least
\* one event processed typing_bursts = long_pause_count + 1.
C33_LongPause ==
  [][\A id \in Ids :
       Pushed(id) =>
         LET e == PushedEvent(id)
             x == sessions[id]
             y == sessions'[id]
             step == IF applied[id] # <<>> /\ e.ts - applied[id][Len(applied[id])].ts > 1500
                       THEN 1 ELSE 0
         IN /\ applied[id] # <<>>
               => /\ y.long_pause_count = x.long_pause_count + step
                  /\ y.typing_bursts = x.typing_bursts + step
            /\ y.typing_bursts = y.long_pause_count + 1
  ]_vars

C33_Witness ==
  \E id \in DOMAIN sessions :
    /\ Len(applied[id]) = 3
    /\ applied[id][1].ts = 1000
    /\ applied[id][2].ts = 2500
    /\ applied[id][3].ts = 5000
    /\ sessions[id].long_pause_count = 1
    /\ sessions[id].typing_bursts = 2

\* C40: when the timestamps of the stream never decrease, every long pause
\* accounts for more than 1500 ms of the duration:
\* total_duration_ms > 1500 * long_pause_count whenever long_pause_count > 0.
C40_PausesWithinDuration ==
  (Finalized /\ NonDecreasing(FinalStream) /\ FinalProfile.timing.long_pause_count > 0)
  => FinalProfile.timing.total_duration_ms > LongPauseMs * FinalProfile.timing.long_pause_count

C40_Witness ==
  /\ Finalized
  /\ NonDecreasing(FinalStream)
  /\ FinalProfile.timing.long_pause_count = 2
  /\ FinalProfile.timing.total_duration_ms = 4000

\* ------------------------------------------------------------------------
\* Ghost text (under ExtractorSpec)
\* ------------------------------------------------------------------------
\* the texts of the GhostText events of a stream, in stream order
RECURSIVE GhostTextsOf(_)
GhostTextsOf(events) ==
  IF events = <<>> THEN <<>>
  ELSE IF Head(events).type = "GhostText"
    THEN <<Head(events).text>> \o GhostTextsOf(Tail(events))
    ELSE GhostTextsOf(Tail(events))

\* the fields a GhostText must leave alone
GhostFrame ==
  { "total_typed_chars", "total_pasted_chars", "paste_events", "backspace_count",
    "backspace_burst_count", "undo_count", "redo_count", "selection_edit_count", "first_action" }

\* C34: push_event accepts a GhostText, which appends its text to ghost_texts
\* and changes no count and not first_action; no other event touches
\* ghost_texts; the ghost_text of the finalized profile is the texts of the
\* GhostText events pushed, in push order.
C34_GhostText ==
  [][/\ \A id \in Ids :
          Pushed(id) =>
            LET e == PushedEvent(id)
                x == sessions[id]
                y == sessions'[id]
            IN IF e.type = "GhostText"
                 THEN /\ ret'[Caller].status = "Ok"
                      /\ y.ghost_texts = Append(x.ghost_texts, e.text)
                      /\ \A f \in GhostFrame : y[f] = x[f]
                 ELSE y.ghost_texts = x.ghost_texts
     /\ (Finalized => FinalProfile.ghost_text = GhostTextsOf(FinalStream))'
  ]_vars

C34_Witness ==
  /\ Finalized
  /\ Len(FinalStream) = 3
  /\ FinalStream[2].type = "KeyInsert"
  /\ FinalProfile.ghost_text = <<"ok", "hm">>
  /\ FinalProfile.source.first_action = "Typed"

\* ------------------------------------------------------------------------
\* Scope and depth of the rule engine (under RuleSpec)
\* ------------------------------------------------------------------------
\* C35: scope_hint is Narrow exactly when bullet_lines > 2 and request_summary
\* is false; Broad when request_summary holds, or when rule 1 or rule 3 fires
\* and bullet_lines <= 2; Medium otherwise.
C35_ScopeLastWrite ==
  RulesApplied =>
    LET source == call[Caller].source
        structure == call[Caller].structure
        scope == ret[Caller].tags.scope_hint
        r1 == source.paste_ratio[1] * 10 > 8 * source.paste_ratio[2] /\ structure.line_count >= 3
        r3 == structure.line_count <= 2 /\ structure.char_count < 40
        r5 == structure.bullet_lines > 2
    IN /\ (scope = "Narrow") <=> (r5 /\ ~structure.request_summary)
       /\ (scope = "Broad") <=> (structure.request_summary \/ ((r1 \/ r3) /\ ~r5))
       /\ scope \in {"Narrow", "Broad", "Medium"}

C35_Witness ==
  /\ RulesApplied
  /\ call[Caller].source.paste_ratio = <<9, 10>>
  /\ call[Caller].structure.bullet_lines > 2
  /\ ~call[Caller].structure.request_summary
  /\ ret[Caller].tags.scope_hint = "Narrow"

\* C36: depth_hint is Deep exactly when rule 2 fires (TypedOnly,
\* total_duration_ms > 30000, backspace_count > 20) or the text is Japanese
\* with char_count > 500, and Normal otherwise; Shallow is never returned.
C36_Depth ==
  RulesApplied =>
    LET source == call[Caller].source
        timing == call[Caller].timing
        editing == call[Caller].editing
        structure == call[Caller].structure
        depth == ret[Caller].tags.depth_hint
        deep == \/ /\ source.source_type = "TypedOnly"
                   /\ timing.total_duration_ms > 30000
                   /\ editing.backspace_count > 20
                \/ structure.japanese_detected /\ structure.char_count > 500
    IN depth = (IF deep THEN "Deep" ELSE "Normal")

C36_Witness ==
  /\ RulesApplied
  /\ call[Caller].source.source_type = "TypedOnly"
  /\ call[Caller].editing.backspace_count > 20
  /\ call[Caller].structure.japanese_detected
  /\ call[Caller].structure.char_count <= 500
  /\ ret[Caller].tags.depth_hint = "Deep"

\* ------------------------------------------------------------------------
\* User states (under UserStateSpec)
\* ------------------------------------------------------------------------
\* C37 as claimed: there is an input bundle for which all six user states are
\* detected at once.
C37_AllFireTogether ==
  call[Caller].op = "apply" =>
    \E source \in UserStateSources, b \in UserStateBehaviours :
      apply_user_states(source, b.timing, b.editing)
        = {"Hesitant", "Flowing", "Editing", "Scattered", "Pasting", "Focused"}

\* C37 as amended: the six conditions are tested one by one and several can
\* hold together, but Hesitant and Scattered (slow typing) never come with
\* Flowing or Focused (fast typing), so at most four user states are returned.
C37_UserStatesTogether ==
  RulesApplied =>
    LET user_state == Range(ret[Caller].tags.user_state)
    IN /\ \A slow \in {"Hesitant", "Scattered"}, fast \in {"Flowing", "Focused"} :
            ~({slow, fast} \subseteq user_state)
       /\ Cardinality(user_state) <= 4

C37_Witness ==
  /\ RulesApplied
  /\ Range(ret[Caller].tags.user_state) = {"Flowing", "Focused", "Editing", "Pasting"}
  /\ call[Caller].editing.backspace_count < 5

\* ------------------------------------------------------------------------
\* Sessions and snapshots (under Spec)
\* ------------------------------------------------------------------------
\* C38: a step of push_event, preview_message, finalize_message, export_events
\* or export_snapshot on a session id leaves every other session in the map with
\* its extractor and its event stream as they were, and the profile a
\* finalize_message returns for an id is one computed from the events pushed to
\* that id and the text of the call.
C38_SessionsIsolated ==
  [][\A t \in Threads :
       (/\ pc[t] \in {"cs", "cs_apply"}
        /\ pc'[t] # pc[t]
        /\ call[t].fn \in {"push_event", "preview_message", "finalize_message", "export_events"}) =>
         /\ \A b \in DOMAIN sessions \ {call[t].id} :
              /\ b \in DOMAIN sessions'
              /\ sessions'[b] = sessions[b]
              /\ get_events(sessions'[b]) = get_events(sessions[b])
         /\ \A b \in Ids \ {call[t].id} : applied'[b] = applied[b]
         /\ (call[t].op = "finalize_message" /\ call[t].id \in DOMAIN sessions)
              => /\ ret'[t].status = "Ok"
                 /\ ret'[t].profile \in
                      FinalizeJson(Replay(applied[call[t].id]), call[t].id, call[t].text)]_vars

C38_Witness ==
  \E t \in Threads, a \in DOMAIN sessions :
    /\ Returned(t, "finalize_message", "Ok")
    /\ a # ret[t].id
    /\ Len(applied[a]) >= 2
    /\ applied[ret[t].id] = <<>>
    /\ sessions[a] = Replay(applied[a])

====
